---- MODULE Spec2Model ----
(***************************************************************************)
(* hvcsadmin (scripts/hvcsadmin.py): the parse / resolve / mutate engine   *)
(* that administers vty-server adapter connections through systool's text  *)
(* dump and the sysfs attribute files.                                      *)
(*                                                                         *)
(* A string of the program is a sequence of one-character strings, so that *)
(* the regular expressions of the script are computed character by         *)
(* character.  A line of systool's output is a record [key, val]: key is   *)
(* the literal text a line pattern requires in front of = "..." ("other"   *)
(* for a line no pattern of the script matches) and val is the text        *)
(* between the quotes.                                                      *)
(***************************************************************************)
EXTENDS Integers, Sequences, FiniteSets, TLC

VARIABLES
    pc,           \* position of the run
    args,         \* the parsed command line (argparse namespace)
    noisy,        \* NOISY, the -noisy count
    devs,         \* the vio devices of the machine, in systool's order
    out,          \* the lines systool prints
    dev,          \* the names present in /dev
    sysfs,        \* the attribute files: path -> content
    log,          \* every I/O step and message of the run, in order
    exit,         \* the exit status of the process, -1 while it runs
    device_path,  \* closedevice's resolved path / the result of a resolution
    target        \* the index or partition a resolution is asked for

vars == <<pc, args, noisy, devs, out, dev, sysfs, log, exit, device_path, target>>

----------------------------------------------------------------------------
(* Bounds of the model *)

MaxDevs == 3
MaxLines == 3

----------------------------------------------------------------------------
(* Characters and strings *)

Digits == {"0", "1", "2", "3", "4", "5", "6", "7", "8", "9"}

LowerCase == {"a", "b", "c", "d", "e", "f", "g", "h", "i", "j", "k", "l", "m",
              "n", "o", "p", "q", "r", "s", "t", "u", "v", "w", "x", "y", "z"}

UpperCase == {"A", "B", "C", "D", "E", "F", "G", "H", "I", "J", "K", "L", "M",
              "N", "O", "P", "Q", "R", "S", "T", "U", "V", "W", "X", "Y", "Z"}

\* \w of Python's re
WordChars == Digits \cup LowerCase \cup UpperCase \cup {"_"}

\* \s of Python's re, and what str.strip() removes
SpaceChars == {" ", "\t", "\n", "\r"}

EmptyStr == << >>

SetMin(S) == CHOOSE x \in S : \A y \in S : x <= y

At(s, k) == IF k \in 1..Len(s) THEN s[k] ELSE ""

\* the last position of the longest run of characters of C that starts at i
\* (i - 1 when there is none)
RunEnd(s, i, C) ==
    LET bad == {k \in i..Len(s) : s[k] \notin C}
    IN  IF bad = {} THEN (IF i > Len(s) THEN i - 1 ELSE Len(s))
        ELSE SetMin(bad) - 1

\* str.strip()
Strip(s) ==
    LET keep == {k \in 1..Len(s) : s[k] \notin SpaceChars}
    IN  IF keep = {} THEN EmptyStr
        ELSE SubSeq(s, SetMin(keep), CHOOSE x \in keep : \A y \in keep : y <= x)

\* os.path.join(a, b) for a relative b
PathJoin(a, b) ==
    IF a = EmptyStr THEN b
    ELSE IF a[Len(a)] = "/" THEN a \o b
    ELSE a \o <<"/">> \o b

DRIVER == <<"h", "v", "c", "s">>
GLOBAL_NODE_NAME == <<"h", "v", "c", "s">>

F_vterm_state == <<"v", "t", "e", "r", "m", "_", "s", "t", "a", "t", "e">>
F_current_vty == <<"c", "u", "r", "r", "e", "n", "t", "_", "v", "t", "y">>
F_index == <<"i", "n", "d", "e", "x">>
F_rescan == <<"r", "e", "s", "c", "a", "n">>

----------------------------------------------------------------------------
(* The log of a run *)

Ev(op, path, val, ok, msg) ==
    [op |-> op, path |-> path, val |-> val, ok |-> ok, msg |-> msg]

\* a systool / which / bash invocation; ok: the tool exited 0
ToolEv(cmd, rc) == Ev("tool", EmptyStr, EmptyStr, rc = 0, cmd)

\* statusprint: written only when NOISY > 0
statusprint(n, subject, msg) ==
    IF n > 0 THEN <<Ev("statusprint", subject, EmptyStr, TRUE, msg)>> ELSE << >>

\* errorprint: always written
errorprint(subject, msg) == <<Ev("errorprint", subject, EmptyStr, TRUE, msg)>>

\* print
printout(subject, val, msg) == <<Ev("print", subject, val, TRUE, msg)>>

----------------------------------------------------------------------------
(* Identifier validation *)

\* the offsets at which  GLOBAL_NODE_NAME[0-9]+$  matches in devnode
NodeMatches(devnode) ==
    LET n == Len(GLOBAL_NODE_NAME)
    IN  {i \in 1..Len(devnode) :
            /\ i + n <= Len(devnode)
            /\ SubSeq(devnode, i, i + n - 1) = GLOBAL_NODE_NAME
            /\ \A k \in (i + n)..Len(devnode) : devnode[k] \in Digits}

getindex(devnode) ==
    IF NodeMatches(devnode) = {} THEN <<"-", "1">>
    ELSE SubSeq(devnode, SetMin(NodeMatches(devnode)) + Len(GLOBAL_NODE_NAME),
                Len(devnode))

getnodename(devnode) ==
    IF NodeMatches(devnode) = {} THEN EmptyStr ELSE GLOBAL_NODE_NAME

\* variant of validindex: refuses only what is not a number
validindex_digits_only(dev_index) ==
    IF \E k \in 1..Len(dev_index) : dev_index[k] \notin Digits THEN -1 ELSE 0

\* re.match(r'(^0.+$)', dev_index): -1 for a leading zero followed by more
validindex(dev_index) ==
    LET body == IF Len(dev_index) > 0 /\ dev_index[Len(dev_index)] = "\n"
                THEN SubSeq(dev_index, 1, Len(dev_index) - 1)
                ELSE dev_index
    IN  IF /\ Len(body) >= 2
           /\ body[1] = "0"
           /\ \A k \in 2..Len(body) : body[k] # "\n"
        THEN -1 ELSE 0

\* variant of finddeventry: the node is taken to exist
finddeventry_unchecked(node_name, dev_number, entries) == 0

\* os.path.exists("/dev/<node_name><dev_number>")
finddeventry(node_name, dev_number, entries) ==
    IF (node_name \o dev_number) \notin entries THEN -1 ELSE 0

----------------------------------------------------------------------------
(* Location codes *)

\* \w+\.\w+\.\w+-V(\d+)-C(\d+) matched from position i to the end of s
ParseCLCFrom(s, i) ==
    LET e1 == RunEnd(s, i, WordChars)
        e2 == RunEnd(s, e1 + 2, WordChars)
        e3 == RunEnd(s, e2 + 2, WordChars)
        e4 == RunEnd(s, e3 + 3, Digits)
        e5 == RunEnd(s, e4 + 3, Digits)
        ok == /\ e1 >= i /\ At(s, e1 + 1) = "."
              /\ e2 >= e1 + 2 /\ At(s, e2 + 1) = "."
              /\ e3 >= e2 + 2 /\ At(s, e3 + 1) = "-" /\ At(s, e3 + 2) = "V"
              /\ e4 >= e3 + 3 /\ At(s, e4 + 1) = "-" /\ At(s, e4 + 2) = "C"
              /\ e5 >= e4 + 3 /\ e5 = Len(s)
    IN  IF ok
        THEN [ok |-> TRUE,
              machine |-> SubSeq(s, i, e3),
              partition |-> SubSeq(s, e3 + 3, e4),
              slot |-> SubSeq(s, e4 + 3, e5)]
        ELSE [ok |-> FALSE, machine |-> EmptyStr, partition |-> EmptyStr,
              slot |-> EmptyStr]

----------------------------------------------------------------------------
(* The scans of systool's output *)

Line(key, val) == [key |-> key, val |-> val]

\* [found: the loop returned a Driver path, path: what it returned]
RECURSIVE is_driver_installed_loop(_, _, _)
is_driver_installed_loop(lines, i, local_driver) ==
    IF i > Len(lines) THEN [found |-> FALSE, path |-> EmptyStr]
    ELSE IF lines[i].key = "Driver"
         THEN is_driver_installed_loop(lines, i + 1, lines[i].val)
    ELSE IF lines[i].key = "Driver path"
         THEN IF local_driver = DRIVER
              THEN [found |-> TRUE, path |-> lines[i].val]
              ELSE is_driver_installed_loop(lines, i + 1, local_driver)
    ELSE is_driver_installed_loop(lines, i + 1, local_driver)

\* variant of is_driver_installed: the driver is taken as built in when the
\* scan cannot be made
is_driver_installed_builtin(rc, lines) ==
    IF rc # 0 THEN DRIVER
    ELSE is_driver_installed_loop(lines, 1, EmptyStr).path

is_driver_installed(rc, lines) ==
    IF rc # 0 THEN EmptyStr
    ELSE is_driver_installed_loop(lines, 1, EmptyStr).path

\* variant of by_partition_loop: the slot is not looked at
RECURSIVE by_partition_loop_anyslot(_, _, _, _, _)
by_partition_loop_anyslot(lines, i, target_partition, local_driver, dpath) ==
    IF i > Len(lines) THEN EmptyStr
    ELSE IF lines[i].key = "Driver"
         THEN by_partition_loop_anyslot(lines, i + 1, target_partition,
                                        lines[i].val, EmptyStr)
    ELSE IF lines[i].key = "Device path"
         THEN by_partition_loop_anyslot(lines, i + 1, target_partition,
                                        local_driver, lines[i].val)
    ELSE IF lines[i].key = "current_vty" /\ ParseCLCFrom(lines[i].val, 1).ok
         THEN IF /\ local_driver = DRIVER
                 /\ target_partition = ParseCLCFrom(lines[i].val, 1).partition
              THEN dpath
              ELSE by_partition_loop_anyslot(lines, i + 1, target_partition,
                                             local_driver, dpath)
    ELSE by_partition_loop_anyslot(lines, i + 1, target_partition, local_driver,
                                   dpath)

RECURSIVE by_partition_loop(_, _, _, _, _)
by_partition_loop(lines, i, target_partition, local_driver, dpath) ==
    IF i > Len(lines) THEN EmptyStr
    ELSE IF lines[i].key = "Driver"
         THEN by_partition_loop(lines, i + 1, target_partition, lines[i].val,
                                EmptyStr)
    ELSE IF lines[i].key = "Device path"
         THEN by_partition_loop(lines, i + 1, target_partition, local_driver,
                                lines[i].val)
    ELSE IF lines[i].key = "current_vty" /\ ParseCLCFrom(lines[i].val, 1).ok
         THEN LET m == ParseCLCFrom(lines[i].val, 1)
              IN  IF /\ local_driver = DRIVER
                     /\ target_partition = m.partition
                     /\ m.slot = <<"0">>
                  THEN dpath
                  ELSE by_partition_loop(lines, i + 1, target_partition,
                                         local_driver, dpath)
    ELSE by_partition_loop(lines, i + 1, target_partition, local_driver, dpath)

get_device_path_by_partition(target_partition, rc, lines) ==
    IF rc # 0 THEN EmptyStr
    ELSE by_partition_loop(lines, 1, target_partition, EmptyStr, EmptyStr)

\* variant of by_index_loop: a line of no recognised shape ends the block
RECURSIVE by_index_loop_otherends(_, _, _, _, _)
by_index_loop_otherends(lines, i, target_index, local_driver, dpath) ==
    IF i > Len(lines) THEN EmptyStr
    ELSE IF lines[i].key = "Driver"
         THEN by_index_loop_otherends(lines, i + 1, target_index, lines[i].val,
                                      EmptyStr)
    ELSE IF lines[i].key = "Device path"
         THEN by_index_loop_otherends(lines, i + 1, target_index, local_driver,
                                      lines[i].val)
    ELSE IF lines[i].key = "index"
         THEN IF local_driver = DRIVER /\ lines[i].val = target_index
              THEN dpath
              ELSE by_index_loop_otherends(lines, i + 1, target_index,
                                           local_driver, dpath)
    ELSE IF lines[i].key = "other"
         THEN by_index_loop_otherends(lines, i + 1, target_index, EmptyStr,
                                      EmptyStr)
    ELSE by_index_loop_otherends(lines, i + 1, target_index, local_driver, dpath)

\* a number without its leading zeros
StripZeros(t) ==
    LET nz == {k \in 1..Len(t) : t[k] # "0"}
    IN  IF nz = {} THEN <<"0">> ELSE SubSeq(t, SetMin(nz), Len(t))

\* variant of by_index_loop: the indices are compared as numbers
RECURSIVE by_index_loop_numeric(_, _, _, _, _)
by_index_loop_numeric(lines, i, target_index, local_driver, dpath) ==
    IF i > Len(lines) THEN EmptyStr
    ELSE IF lines[i].key = "Driver"
         THEN by_index_loop_numeric(lines, i + 1, target_index, lines[i].val,
                                    EmptyStr)
    ELSE IF lines[i].key = "Device path"
         THEN by_index_loop_numeric(lines, i + 1, target_index, local_driver,
                                    lines[i].val)
    ELSE IF lines[i].key = "index"
         THEN IF /\ local_driver = DRIVER
                 /\ StripZeros(lines[i].val) = StripZeros(target_index)
              THEN dpath
              ELSE by_index_loop_numeric(lines, i + 1, target_index,
                                         local_driver, dpath)
    ELSE by_index_loop_numeric(lines, i + 1, target_index, local_driver, dpath)

\* variant of by_index_loop: the driver of the block is not looked at
RECURSIVE by_index_loop_anydriver(_, _, _, _, _)
by_index_loop_anydriver(lines, i, target_index, local_driver, dpath) ==
    IF i > Len(lines) THEN EmptyStr
    ELSE IF lines[i].key = "Driver"
         THEN by_index_loop_anydriver(lines, i + 1, target_index, lines[i].val,
                                      EmptyStr)
    ELSE IF lines[i].key = "Device path"
         THEN by_index_loop_anydriver(lines, i + 1, target_index, local_driver,
                                      lines[i].val)
    ELSE IF lines[i].key = "index"
         THEN IF lines[i].val = target_index
              THEN dpath
              ELSE by_index_loop_anydriver(lines, i + 1, target_index,
                                           local_driver, dpath)
    ELSE by_index_loop_anydriver(lines, i + 1, target_index, local_driver, dpath)

\* variant of by_index_loop: the path is taken from the Driver path line
RECURSIVE by_index_loop_driverpath(_, _, _, _, _)
by_index_loop_driverpath(lines, i, target_index, local_driver, dpath) ==
    IF i > Len(lines) THEN EmptyStr
    ELSE IF lines[i].key = "Driver"
         THEN by_index_loop_driverpath(lines, i + 1, target_index, lines[i].val,
                                       EmptyStr)
    ELSE IF lines[i].key = "Driver path"
         THEN by_index_loop_driverpath(lines, i + 1, target_index, local_driver,
                                       lines[i].val)
    ELSE IF lines[i].key = "index"
         THEN IF local_driver = DRIVER /\ lines[i].val = target_index
              THEN dpath
              ELSE by_index_loop_driverpath(lines, i + 1, target_index,
                                            local_driver, dpath)
    ELSE by_index_loop_driverpath(lines, i + 1, target_index, local_driver,
                                  dpath)

\* a scan that carries the device path over a Driver line
RECURSIVE by_index_loop_keeppath(_, _, _, _, _)
by_index_loop_keeppath(lines, i, target_index, local_driver, dpath) ==
    IF i > Len(lines) THEN EmptyStr
    ELSE IF lines[i].key = "Driver"
         THEN by_index_loop_keeppath(lines, i + 1, target_index, lines[i].val,
                                     dpath)
    ELSE IF lines[i].key = "Device path"
         THEN by_index_loop_keeppath(lines, i + 1, target_index, local_driver,
                                     lines[i].val)
    ELSE IF lines[i].key = "index"
         THEN IF local_driver = DRIVER /\ lines[i].val = target_index
              THEN dpath
              ELSE by_index_loop_keeppath(lines, i + 1, target_index,
                                          local_driver, dpath)
    ELSE by_index_loop_keeppath(lines, i + 1, target_index, local_driver, dpath)

RECURSIVE by_index_loop(_, _, _, _, _)
by_index_loop(lines, i, target_index, local_driver, dpath) ==
    IF i > Len(lines) THEN EmptyStr
    ELSE IF lines[i].key = "Driver"
         THEN by_index_loop(lines, i + 1, target_index, lines[i].val, EmptyStr)
    ELSE IF lines[i].key = "Device path"
         THEN by_index_loop(lines, i + 1, target_index, local_driver,
                            lines[i].val)
    ELSE IF lines[i].key = "index"
         THEN IF local_driver = DRIVER /\ lines[i].val = target_index
              THEN dpath
              ELSE by_index_loop(lines, i + 1, target_index, local_driver, dpath)
    ELSE by_index_loop(lines, i + 1, target_index, local_driver, dpath)

get_device_path_by_index(target_index, rc, lines) ==
    IF rc # 0 THEN EmptyStr
    ELSE by_index_loop(lines, 1, target_index, EmptyStr, EmptyStr)

----------------------------------------------------------------------------
(* closeall and rescan: the scans that write *)

WriteEv(path, val, ok) == Ev("write", path, val, ok, "write")

\* variant of closeall_loop: the first write that raises ends the sweep
RECURSIVE closeall_loop_abort(_, _, _, _, _, _, _)
closeall_loop_abort(lines, i, local_driver, local_device, dpath, fails, n) ==
    IF i > Len(lines) THEN << >>
    ELSE IF lines[i].key = "Driver"
         THEN closeall_loop_abort(lines, i + 1, lines[i].val, EmptyStr, EmptyStr,
                                  fails, n)
    ELSE IF lines[i].key = "Device path"
         THEN closeall_loop_abort(lines, i + 1, local_driver, local_device,
                                  lines[i].val, fails, n)
    ELSE IF lines[i].key = "Device"
         THEN closeall_loop_abort(lines, i + 1, local_driver, lines[i].val,
                                  dpath, fails, n)
    ELSE IF /\ lines[i].key = "vterm_state"
            /\ local_driver = DRIVER /\ lines[i].val = <<"1">>
         THEN IF i \in fails
              THEN <<WriteEv(PathJoin(dpath, F_vterm_state), <<"0">>, FALSE)>>
              ELSE <<WriteEv(PathJoin(dpath, F_vterm_state), <<"0">>, TRUE)>>
                   \o statusprint(n, local_device, "closed")
                   \o closeall_loop_abort(lines, i + 1, local_driver,
                                          local_device, dpath, fails, n)
    ELSE closeall_loop_abort(lines, i + 1, local_driver, local_device, dpath,
                             fails, n)

\* variant of closeall_loop: the state read from the line is written back
RECURSIVE closeall_loop_writeback(_, _, _, _, _, _, _)
closeall_loop_writeback(lines, i, local_driver, local_device, dpath, fails, n) ==
    IF i > Len(lines) THEN << >>
    ELSE IF lines[i].key = "Driver"
         THEN closeall_loop_writeback(lines, i + 1, lines[i].val, EmptyStr,
                                      EmptyStr, fails, n)
    ELSE IF lines[i].key = "Device path"
         THEN closeall_loop_writeback(lines, i + 1, local_driver, local_device,
                                      lines[i].val, fails, n)
    ELSE IF lines[i].key = "Device"
         THEN closeall_loop_writeback(lines, i + 1, local_driver, lines[i].val,
                                      dpath, fails, n)
    ELSE IF lines[i].key = "vterm_state"
         THEN (IF local_driver = DRIVER /\ lines[i].val = <<"1">>
               THEN <<WriteEv(PathJoin(dpath, F_vterm_state), lines[i].val,
                              i \notin fails)>>
                    \o (IF i \notin fails
                        THEN statusprint(n, local_device, "closed")
                        ELSE << >>)
               ELSE << >>)
              \o closeall_loop_writeback(lines, i + 1, local_driver,
                                         local_device, dpath, fails, n)
    ELSE closeall_loop_writeback(lines, i + 1, local_driver, local_device, dpath,
                                 fails, n)

\* fails: the line numbers at which open()/write() raises
RECURSIVE closeall_loop(_, _, _, _, _, _, _)
closeall_loop(lines, i, local_driver, local_device, dpath, fails, n) ==
    IF i > Len(lines) THEN << >>
    ELSE IF lines[i].key = "Driver"
         THEN closeall_loop(lines, i + 1, lines[i].val, EmptyStr, EmptyStr,
                            fails, n)
    ELSE IF lines[i].key = "Device path"
         THEN closeall_loop(lines, i + 1, local_driver, local_device,
                            lines[i].val, fails, n)
    ELSE IF lines[i].key = "Device"
         THEN closeall_loop(lines, i + 1, local_driver, lines[i].val, dpath,
                            fails, n)
    ELSE IF lines[i].key = "vterm_state"
         THEN (IF local_driver = DRIVER /\ lines[i].val = <<"1">>
               THEN <<WriteEv(PathJoin(dpath, F_vterm_state), <<"0">>,
                              i \notin fails)>>
                    \o (IF i \notin fails
                        THEN statusprint(n, local_device, "closed")
                        ELSE << >>)
               ELSE << >>)
              \o closeall_loop(lines, i + 1, local_driver, local_device, dpath,
                               fails, n)
    ELSE closeall_loop(lines, i + 1, local_driver, local_device, dpath, fails, n)

\* [ev: what closeall did, exit: 1 when it called sys.exit(1), -1 when it returned]
closeall(rc, lines, fails, n) ==
    IF rc # 0
    THEN [ev |-> <<ToolEv("systool -A vterm_state", rc)>>
                 \o errorprint(EmptyStr, "systool"),
          exit |-> 1]
    ELSE [ev |-> <<ToolEv("systool -A vterm_state", rc)>>
                 \o closeall_loop(lines, 1, EmptyStr, EmptyStr, EmptyStr, fails, n),
          exit |-> -1]

RECURSIVE rescan_loop(_, _, _, _, _)
rescan_loop(lines, i, local_driver, fails, n) ==
    IF i > Len(lines) THEN errorprint(EmptyStr, "rescan attribute not found")
    ELSE IF lines[i].key = "Driver"
         THEN rescan_loop(lines, i + 1, lines[i].val, fails, n)
    ELSE IF lines[i].key = "Driver path"
         THEN IF local_driver = DRIVER
              THEN <<WriteEv(PathJoin(lines[i].val, F_rescan), <<"1">>,
                             i \notin fails)>>
                   \o (IF i \notin fails
                       THEN statusprint(n, EmptyStr, "rescan executed")
                       ELSE rescan_loop(lines, i + 1, local_driver, fails, n))
              ELSE rescan_loop(lines, i + 1, local_driver, fails, n)
    ELSE rescan_loop(lines, i + 1, local_driver, fails, n)

rescan(rc, lines, fails, n) ==
    IF rc # 0
    THEN [ev |-> <<ToolEv("systool", rc)>> \o errorprint(EmptyStr, "systool"),
          exit |-> 1]
    ELSE [ev |-> <<ToolEv("systool", rc)>>
                 \o rescan_loop(lines, 1, EmptyStr, fails, n),
          exit |-> -1]

\* the line numbers at which closeall / rescan may try a write
WriteLines(lines, key) == {i \in 1..Len(lines) : lines[i].key = key}

\* the files after the writes of a log: an accepted "0" in a vterm_state file
\* reads back as "0\n"; the rescan attribute keeps nothing
RECURSIVE ApplyWrites(_, _)
ApplyWrites(fs, ev) ==
    IF ev = << >> THEN fs
    ELSE LET e == Head(ev)
             fs1 == IF e.op = "write" /\ e.ok /\ e.val = <<"0">>
                    THEN (e.path :> <<"0", "\n">>) @@ fs
                    ELSE fs
         IN  ApplyWrites(fs1, Tail(ev))

----------------------------------------------------------------------------
(* StatusReporter *)

\* a search that takes the partition from a code without a slot
SearchCLC_partial(s) ==
    LET starts == {i \in 1..Len(s) : ParseCLCFrom(s, i).ok}
        nd == {k \in 0..Len(s) : k = 0 \/ s[k] \notin Digits}
        from == (CHOOSE k \in nd : \A j \in nd : j <= k) + 1
    IN  IF starts = {}
        THEN [ParseCLCFrom(EmptyStr, 1) EXCEPT
                 !.partition = SubSeq(s, from, Len(s))]
        ELSE ParseCLCFrom(s, SetMin(starts))

\* re.search(r'(\w+\.\w+\.\w+)-V(\d+)-C(\d+)$', s)
SearchCLC(s) ==
    LET starts == {i \in 1..Len(s) : ParseCLCFrom(s, i).ok}
    IN  IF starts = {} THEN ParseCLCFrom(EmptyStr, 1)
        ELSE ParseCLCFrom(s, SetMin(starts))

\* re.search(r'.+(3C+)$', path): the greedy .+ leaves the shortest suffix
SuffixAfter3(path, C) ==
    LET starts == {j \in 2..Len(path) :
                      /\ path[j] = "3"
                      /\ j < Len(path)
                      /\ \A k \in (j + 1)..Len(path) : path[k] \in C
                      /\ \A k \in 1..(j - 1) : path[k] # "\n"}
    IN  IF starts = {} THEN EmptyStr
        ELSE SubSeq(path, CHOOSE j \in starts : \A k \in starts : k <= j,
                    Len(path))

HexChars == Digits \cup {"a", "b", "c", "d", "e", "f", "A", "B", "C", "D", "E", "F"}

\* vty-server@<id> partition:<p> slot:<s> /dev/hvcs<index> vterm-state:<v>
StatusLine(vty_server, partition, slot, device_index, vterm_state) ==
    <<"@">> \o vty_server \o <<" ", "p", ":">> \o partition
      \o <<" ", "s", ":">> \o slot \o <<" ">> \o DRIVER \o device_index
      \o <<" ", "v", ":">> \o vterm_state

\* [ev, exit: 1 when sys.exit(1) was called and -1 otherwise, ret]
displaybypath(path, fs) ==
    IF path = EmptyStr
    THEN [ev |-> errorprint(path, "path parameter is empty"), exit |-> -1,
          ret |-> -1]
    ELSE IF PathJoin(path, F_current_vty) \notin DOMAIN fs
    THEN [ev |-> <<Ev("exists", PathJoin(path, F_current_vty), EmptyStr, FALSE,
                       "exists")>>
                 \o errorprint(path, "current_vty attribute does not exist"),
          exit |-> 1, ret |-> -1]
    ELSE IF PathJoin(path, F_index) \notin DOMAIN fs
    THEN [ev |-> <<Ev("exists", PathJoin(path, F_current_vty), EmptyStr, TRUE,
                       "exists"),
                    Ev("exists", PathJoin(path, F_index), EmptyStr, FALSE,
                       "exists")>>
                 \o errorprint(path, "index attribute does not exist"),
          exit |-> 1, ret |-> -1]
    ELSE IF PathJoin(path, F_vterm_state) \notin DOMAIN fs
    THEN [ev |-> <<Ev("exists", PathJoin(path, F_current_vty), EmptyStr, TRUE,
                       "exists"),
                    Ev("exists", PathJoin(path, F_index), EmptyStr, TRUE,
                       "exists"),
                    Ev("exists", PathJoin(path, F_vterm_state), EmptyStr, FALSE,
                       "exists")>>
                 \o errorprint(path, "vterm_state attribute does not exist"),
          exit |-> 1, ret |-> -1]
    ELSE LET current_vty == Strip(fs[PathJoin(path, F_current_vty)])
             m == SearchCLC(current_vty)
             vterm_state == Strip(fs[PathJoin(path, F_vterm_state)])
             device_index == Strip(fs[PathJoin(path, F_index)])
             vty_server == SuffixAfter3(path, HexChars)
         IN  [ev |-> <<Ev("exists", PathJoin(path, F_current_vty), EmptyStr,
                           TRUE, "exists"),
                        Ev("exists", PathJoin(path, F_index), EmptyStr, TRUE,
                           "exists"),
                        Ev("exists", PathJoin(path, F_vterm_state), EmptyStr,
                           TRUE, "exists"),
                        Ev("read", PathJoin(path, F_current_vty), current_vty,
                           TRUE, "read"),
                        Ev("read", PathJoin(path, F_vterm_state), vterm_state,
                           TRUE, "read"),
                        Ev("read", PathJoin(path, F_index), device_index, TRUE,
                           "read")>>
                     \o printout(path,
                                 StatusLine(vty_server, m.partition, m.slot,
                                            device_index, vterm_state),
                                 "status line"),
              exit |-> -1, ret |-> 0]

----------------------------------------------------------------------------
(* The machine: its vio devices and what systool prints for them *)

OtherDriver == <<"i", "b", "m", "v", "e", "t", "h">>
Drivers == {DRIVER, OtherDriver}

DriverDir == <<"/", "b", "u", "s", "/">>
DeviceDir == <<"/", "v", "i", "o", "/">>
MachineSerial == <<"U", "9", "4", "0", "6", ".", "5", "2", "0", ".", "1", "A">>

DigitChar(d) == <<"0", "1", "2", "3", "4", "5", "6", "7", "8", "9">>[(d % 10) + 1]

\* the adapter id of the i-th device
DevName(i) ==
    IF i = 1 THEN <<"3", "0", "0", "0", "0", "0", "0", "0">>
    ELSE IF i = 2 THEN <<"3", "0", "0", "0", "0", "0", "3", "5">>
    ELSE IF i = 3 THEN <<"3", "0", "0", "0", "0", "0", "0", "a">>
    ELSE <<"3", "0", "0", "0", "0", "0", "1">> \o <<DigitChar(i)>>

\* a location code as the kernel prints it: <machine>-V<partition>-C<slot>
FormatCLC(machine, partition, slot) ==
    machine \o <<"-", "V">> \o partition \o <<"-", "C">> \o slot

\* what current_vty holds: a location code, or text that is none
GoodVty(partition, slot) ==
    [wf |-> TRUE, partition |-> partition, slot |-> slot,
     text |-> FormatCLC(MachineSerial, partition, slot)]

BadVty(text) ==
    [wf |-> FALSE, partition |-> EmptyStr, slot |-> EmptyStr, text |-> text]

P15 == <<"1", "5">>
P7 == <<"7">>

VtyChoices ==
    {GoodVty(P15, <<"0">>), GoodVty(P15, <<"1">>), GoodVty(P7, <<"0">>),
     BadVty(MachineSerial \o <<"-", "V">> \o P15)}

\* the location code of the i-th device where the configuration fixes it
VtyAt(i) ==
    IF i = 1 THEN GoodVty(P15, <<"0">>)
    ELSE IF i = 2 THEN GoodVty(P15, <<"1">>)
    ELSE GoodVty(P7, <<"0">>)

IndexChoices == {<<"2">>, <<"0", "2">>, <<"1", "5">>}

Device(i, drv, index, vty, vterm) ==
    [drv |-> drv, name |-> DevName(i), path |-> DeviceDir \o DevName(i),
     index |-> index, vty |-> vty, vterm |-> vterm]

\* the configurations of a run of the program: driver and connection state vary
MainChoices == [drv : Drivers, vterm : {<<"0">>, <<"1">>}]
MainConfigs ==
    UNION {{[i \in 1..n |-> Device(i, f[i].drv, <<DigitChar(i - 1)>>, VtyAt(i),
                                    f[i].vterm)] : f \in [1..n -> MainChoices]}
           : n \in 0..MaxDevs}

\* the configurations resolveByIndex is tried on: driver and index vary
IndexConfigChoices == [drv : Drivers, index : IndexChoices]
IndexConfigs ==
    UNION {{[i \in 1..n |-> Device(i, f[i].drv, f[i].index, VtyAt(i), <<"0">>)]
            : f \in [1..n -> IndexConfigChoices]}
           : n \in 0..MaxDevs}

\* the configurations resolveByPartition is tried on: driver and location code vary
PartConfigChoices == [drv : Drivers, vty : VtyChoices]
PartConfigs ==
    UNION {{[i \in 1..n |-> Device(i, f[i].drv, <<DigitChar(i - 1)>>, f[i].vty,
                                    <<"1">>)] : f \in [1..n -> PartConfigChoices]}
           : n \in 0..MaxDevs}

\* systool -b vio -D -p: one Driver block for each run of devices of one driver
RECURSIVE RenderFrom(_, _)
RenderFrom(ds, i) ==
    IF i > Len(ds) THEN << >>
    ELSE (IF i = 1 \/ ds[i - 1].drv # ds[i].drv
          THEN <<Line("Driver", ds[i].drv),
                 Line("Driver path", DriverDir \o ds[i].drv),
                 Line("other", EmptyStr)>>
          ELSE << >>)
         \o <<Line("Device", ds[i].name),
              Line("Device path", ds[i].path),
              Line("index", ds[i].index),
              Line("current_vty", ds[i].vty.text),
              Line("vterm_state", ds[i].vterm)>>
         \o RenderFrom(ds, i + 1)

Render(ds) ==
    IF ds = << >> THEN << >> ELSE <<Line("other", <<"v", "i", "o">>)>> \o RenderFrom(ds, 1)

\* the attribute files of the devices; the kernel ends every value with "\n"
DeviceFiles(d) ==
    (PathJoin(d.path, F_vterm_state) :> (d.vterm \o <<"\n">>))
    @@ (PathJoin(d.path, F_index) :> (d.index \o <<"\n">>))
    @@ (PathJoin(d.path, F_current_vty) :> (d.vty.text \o <<"\n">>))

RECURSIVE SysfsOf(_)
SysfsOf(ds) ==
    IF ds = << >> THEN << >>
    ELSE DeviceFiles(Head(ds)) @@ SysfsOf(Tail(ds))

\* lines in any order, as a scan may meet them
RawAlphabet ==
    {Line("Driver", DRIVER), Line("Driver", OtherDriver),
     Line("Driver path", DriverDir \o DRIVER),
     Line("Device path", DeviceDir \o DevName(1)),
     Line("index", <<"2">>),
     Line("current_vty", FormatCLC(MachineSerial, P15, <<"0">>)),
     Line("vterm_state", <<"1">>)}

RawStreams == UNION {[1..n -> RawAlphabet] : n \in 0..MaxLines}

\* one device record written as Driver, Driver path, index, current_vty, vterm_state
BareRecord(index, vterm) ==
    <<Line("Driver", DRIVER), Line("Driver path", DriverDir \o DRIVER),
      Line("index", index),
      Line("current_vty", FormatCLC(MachineSerial, P15, <<"0">>)),
      Line("vterm_state", vterm)>>

BareRecordStreams ==
    {BareRecord(x, v) : x \in IndexChoices, v \in {<<"0">>, <<"1">>}}

\* two adapters of the driver in one Driver block; the second has index 2,
\* serves partition 15 and is Connected
SharedBlockConfigs ==
    {<<Device(1, DRIVER, <<"0">>, GoodVty(P7, <<"0">>), v),
       Device(2, DRIVER, <<"2">>, GoodVty(P15, <<"0">>), <<"1">>)>>
     : v \in {<<"0">>, <<"1">>}}

\* the Device path line of device d in lines
PathLineOf(lines, d) ==
    CHOOSE j \in 1..Len(lines) : lines[j] = Line("Device path", d.path)

\* systool's output for ds with the Device path line of device i left out
WithoutPathLine(ds, i) ==
    LET lines == Render(ds)
        j == PathLineOf(lines, ds[i])
    IN  SubSeq(lines, 1, j - 1) \o SubSeq(lines, j + 1, Len(lines))

\* ... and with it printed after the three attribute lines of the device
WithLatePathLine(ds, i) ==
    LET lines == Render(ds)
        j == PathLineOf(lines, ds[i])
    IN  SubSeq(lines, 1, j - 1) \o SubSeq(lines, j + 1, j + 3)
          \o <<lines[j]>> \o SubSeq(lines, j + 4, Len(lines))

IrregularStreams(ds) ==
    {WithoutPathLine(ds, i) : i \in 1..Len(ds)}
      \cup {WithLatePathLine(ds, i) : i \in 1..Len(ds)}

\* a driver block whose path lines carry the empty string
EmptyPathStreams ==
    {<<Line("Driver", DRIVER), Line("Driver path", EmptyStr)>>,
     <<Line("Driver", DRIVER), Line("Device path", EmptyStr),
       Line("vterm_state", <<"1">>)>>}

Targets == IndexChoices

\* the index and the partition the lines of RawAlphabet name
RawTargets == {<<"2">>, P15}

----------------------------------------------------------------------------
(* What a resolution prints besides its result *)

by_index_log(target_index, rc, lines, n) ==
    <<ToolEv("systool -A index", rc)>>
    \o (IF rc # 0 THEN errorprint(EmptyStr, "systool")
        ELSE IF by_index_loop(lines, 1, target_index, EmptyStr, EmptyStr) = EmptyStr
        THEN statusprint(n, target_index, "does not map to a vty-server adapter")
        ELSE << >>)

by_partition_log(target_partition, rc, lines, n) ==
    <<ToolEv("systool -A current_vty", rc)>>
    \o (IF rc # 0 THEN errorprint(EmptyStr, "systool")
        ELSE IF by_partition_loop(lines, 1, target_partition, EmptyStr, EmptyStr)
                = EmptyStr
        THEN statusprint(n, target_partition, "could not find device path")
        ELSE << >>)

is_driver_installed_log(rc, lines) ==
    <<ToolEv("systool", rc)>>
    \o (IF rc # 0 THEN errorprint(EmptyStr, "systool")
        ELSE IF ~is_driver_installed_loop(lines, 1, EmptyStr).found
        THEN errorprint(EmptyStr, "is not loaded")
        ELSE << >>)

----------------------------------------------------------------------------------------------------------------------------------------
(* status: the enumeration of /dev *)

\* the characters of the model in ASCII order
AsciiOrder ==
    <<"\t", "\n", "\r", " ", "-", ".", "/",
      "0", "1", "2", "3", "4", "5", "6", "7", "8", "9", ":", "@",
      "A", "B", "C", "D", "E", "F", "G", "H", "I", "J", "K", "L", "M",
      "N", "O", "P", "Q", "R", "S", "T", "U", "V", "W", "X", "Y", "Z", "_",
      "a", "b", "c", "d", "e", "f", "g", "h", "i", "j", "k", "l", "m",
      "n", "o", "p", "q", "r", "s", "t", "u", "v", "w", "x", "y", "z">>

CharCode(c) == CHOOSE k \in 1..Len(AsciiOrder) : AsciiOrder[k] = c

\* a < b for Python strings
StrLess(a, b) ==
    \E k \in 1..(Len(a) + 1) :
        /\ \A j \in 1..(k - 1) : j <= Len(b) /\ a[j] = b[j]
        /\ \/ k = Len(a) + 1 /\ Len(b) >= k
           \/ k <= Len(a) /\ k <= Len(b) /\ CharCode(a[k]) < CharCode(b[k])

\* sorted(os.listdir("/dev"))
RECURSIVE sorted(_)
sorted(S) ==
    IF S = {} THEN << >>
    ELSE LET m == CHOOSE x \in S : \A y \in S \ {x} : StrLess(x, y)
         IN  <<m>> \o sorted(S \ {m})

\* re.search(rf'{GLOBAL_NODE_NAME}(\d)$', entry): [ok, index]
status_match(entry) ==
    LET n == Len(GLOBAL_NODE_NAME)
    IN  IF /\ Len(entry) >= n + 1
           /\ entry[Len(entry)] \in Digits
           /\ SubSeq(entry, Len(entry) - n, Len(entry) - 1) = GLOBAL_NODE_NAME
        THEN [ok |-> TRUE, index |-> <<entry[Len(entry)]>>]
        ELSE [ok |-> FALSE, index |-> EmptyStr]

\* variant of status_loop: a device that lacks an attribute file is passed over
RECURSIVE status_loop_skipmissing(_, _, _, _, _, _, _)
status_loop_skipmissing(entries, i, lines, failing, fs, n, count) ==
    IF i > Len(entries)
    THEN [ev |-> IF count = 0
                 THEN printout(EmptyStr, EmptyStr, "no hvcs adapters found")
                 ELSE << >>,
          exit |-> -1]
    ELSE IF status_match(entries[i]).ok
    THEN LET idx == status_match(entries[i]).index
             rc == IF i \in failing THEN 1 ELSE 0
             path == get_device_path_by_index(idx, rc, lines)
             ev1 == by_index_log(idx, rc, lines, n)
         IN  IF path # EmptyStr
             THEN LET d == displaybypath(path, fs)
                      rest == status_loop_skipmissing(entries, i + 1, lines,
                                                      failing, fs, n, count + 1)
                  IN  [ev |-> ev1 \o d.ev \o rest.ev, exit |-> rest.exit]
             ELSE LET rest == status_loop_skipmissing(entries, i + 1, lines,
                                                      failing, fs, n, count)
                  IN  [ev |-> ev1 \o rest.ev, exit |-> rest.exit]
    ELSE status_loop_skipmissing(entries, i + 1, lines, failing, fs, n, count)

\* variant of status_loop: the first entry that maps to no adapter ends the listing
RECURSIVE status_loop_stopnotfound(_, _, _, _, _, _, _)
status_loop_stopnotfound(entries, i, lines, failing, fs, n, count) ==
    IF i > Len(entries)
    THEN [ev |-> IF count = 0
                 THEN printout(EmptyStr, EmptyStr, "no hvcs adapters found")
                 ELSE << >>,
          exit |-> -1]
    ELSE IF status_match(entries[i]).ok
    THEN LET idx == status_match(entries[i]).index
             rc == IF i \in failing THEN 1 ELSE 0
             path == get_device_path_by_index(idx, rc, lines)
             ev1 == by_index_log(idx, rc, lines, n)
         IN  IF path # EmptyStr
             THEN LET d == displaybypath(path, fs)
                      rest == status_loop_stopnotfound(entries, i + 1, lines,
                                                       failing, fs, n, count + 1)
                  IN  IF d.exit = 1 THEN [ev |-> ev1 \o d.ev, exit |-> 1]
                      ELSE [ev |-> ev1 \o d.ev \o rest.ev, exit |-> rest.exit]
             ELSE LET rest == status_loop_stopnotfound(entries, Len(entries) + 1,
                                                       lines, failing, fs, n,
                                                       count)
                  IN  [ev |-> ev1 \o rest.ev, exit |-> rest.exit]
    ELSE status_loop_stopnotfound(entries, i + 1, lines, failing, fs, n, count)

\* failing: the entries whose systool run exits non-zero
RECURSIVE status_loop(_, _, _, _, _, _, _)
status_loop(entries, i, lines, failing, fs, n, count) ==
    IF i > Len(entries)
    THEN [ev |-> IF count = 0
                 THEN printout(EmptyStr, EmptyStr, "no hvcs adapters found")
                 ELSE << >>,
          exit |-> -1]
    ELSE IF status_match(entries[i]).ok
    THEN LET idx == status_match(entries[i]).index
             rc == IF i \in failing THEN 1 ELSE 0
             path == get_device_path_by_index(idx, rc, lines)
             ev1 == by_index_log(idx, rc, lines, n)
         IN  IF path # EmptyStr
             THEN LET d == displaybypath(path, fs)
                      rest == status_loop(entries, i + 1, lines, failing, fs, n,
                                          count + 1)
                  IN  IF d.exit = 1 THEN [ev |-> ev1 \o d.ev, exit |-> 1]
                      ELSE [ev |-> ev1 \o d.ev \o rest.ev, exit |-> rest.exit]
             ELSE LET rest == status_loop(entries, i + 1, lines, failing, fs, n,
                                          count)
                  IN  [ev |-> ev1 \o rest.ev, exit |-> rest.exit]
    ELSE status_loop(entries, i + 1, lines, failing, fs, n, count)

status(entries, lines, failing, fs, n) ==
    status_loop(sorted(entries), 1, lines, failing, fs, n, 0)

----------------------------------------------------------------------------
(* closedevice and querynode: the steps on one device node *)

DevPrefix == <<"/", "d", "e", "v", "/">>

\* variant of check_node: /dev is looked at before the index is validated
check_node_devfirst(parameter, entries) ==
    LET node_name == getnodename(parameter)
        node_index == getindex(parameter)
    IN  IF node_name # GLOBAL_NODE_NAME
        THEN [ev |-> errorprint(parameter, "invalid device node name"),
              exit |-> 1]
        ELSE IF finddeventry(node_name, node_index, entries) # 0
        THEN [ev |-> <<Ev("devcheck", DevPrefix \o node_name \o node_index,
                           EmptyStr, FALSE, "exists")>>
                     \o errorprint(node_index, "not found in /dev"),
              exit |-> 1]
        ELSE IF validindex(node_index) # 0
        THEN [ev |-> <<Ev("devcheck", DevPrefix \o node_name \o node_index,
                           EmptyStr, TRUE, "exists")>>
                     \o errorprint(node_index, "invalid device node number"),
              exit |-> 1]
        ELSE [ev |-> <<Ev("devcheck", DevPrefix \o node_name \o node_index,
                           EmptyStr, TRUE, "exists")>>,
              exit |-> -1]

\* lines 491-505 and 427-440: [ev, exit: 1 when sys.exit(1) was called, else -1]
check_node(parameter, entries) ==
    LET node_name == getnodename(parameter)
        node_index == getindex(parameter)
    IN  IF node_name # GLOBAL_NODE_NAME
        THEN [ev |-> errorprint(parameter, "invalid device node name"),
              exit |-> 1]
        ELSE IF validindex(node_index) # 0
        THEN [ev |-> errorprint(node_index, "invalid device node number"),
              exit |-> 1]
        ELSE IF finddeventry(node_name, node_index, entries) # 0
        THEN [ev |-> <<Ev("devcheck", DevPrefix \o node_name \o node_index,
                           EmptyStr, FALSE, "exists")>>
                     \o errorprint(node_index, "not found in /dev"),
              exit |-> 1]
        ELSE [ev |-> <<Ev("devcheck", DevPrefix \o node_name \o node_index,
                           EmptyStr, TRUE, "exists")>>,
              exit |-> -1]

\* variant of already_disconnected: the text is compared before it is stripped
already_disconnected_unstripped(catval) == catval = <<"0", "\n">>

\* variant of disconnected: any one character passes
disconnected_any(cat) == Len(cat) = 1

\* re.fullmatch(r"0", catval) at line 526
already_disconnected(catval) == catval = <<"0">>

\* re.fullmatch(r"0", cat) at line 541
disconnected(cat) == cat = <<"0">>

\* the three ways the kernel answers the write of line 534
WriteOutcomes == {"accepted", "ignored", "raised"}

----------------
(* The scans applied to a stream: the specification SpecScan *)

NoArgs ==
    [status |-> FALSE, rescan |-> FALSE, all |-> FALSE, close |-> EmptyStr,
     node |-> EmptyStr, console |-> EmptyStr]

InitScan ==
    /\ pc = "scan"
    /\ \/ devs \in IndexConfigs \cup PartConfigs /\ out = Render(devs)
          /\ target \in Targets
       \/ devs = << >> /\ out \in RawStreams /\ target \in RawTargets
       \/ devs = << >> /\ out \in BareRecordStreams \cup EmptyPathStreams
          /\ target \in Targets
       \/ devs \in SharedBlockConfigs /\ out \in IrregularStreams(devs)
          /\ target \in Targets
    /\ sysfs = SysfsOf(devs)
    /\ args = NoArgs
    /\ noisy = 1
    /\ dev = {}
    /\ log = << >>
    /\ exit = -1
    /\ device_path = EmptyStr

ScanByIndex ==
    /\ pc = "scan"
    /\ \E rc \in {0, 1} :
         /\ device_path' = get_device_path_by_index(target, rc, out)
         /\ log' = by_index_log(target, rc, out, noisy)
    /\ pc' = "by_index"
    /\ UNCHANGED <<args, noisy, devs, out, dev, sysfs, exit, target>>

ScanByPartition ==
    /\ pc = "scan"
    /\ \E rc \in {0, 1} :
         /\ device_path' = get_device_path_by_partition(target, rc, out)
         /\ log' = by_partition_log(target, rc, out, noisy)
    /\ pc' = "by_partition"
    /\ UNCHANGED <<args, noisy, devs, out, dev, sysfs, exit, target>>

ScanDriver ==
    /\ pc = "scan"
    /\ \E rc \in {0, 1} :
         /\ device_path' = is_driver_installed(rc, out)
         /\ log' = is_driver_installed_log(rc, out)
    /\ pc' = "driver"
    /\ UNCHANGED <<args, noisy, devs, out, dev, sysfs, exit, target>>

ScanCloseAll ==
    /\ pc = "scan"
    /\ \E rc \in {0, 1}, fails \in {{}, WriteLines(out, "vterm_state")} :
         LET r == closeall(rc, out, IF rc = 0 THEN fails ELSE {}, noisy)
         IN  /\ log' = r.ev
             /\ exit' = r.exit
             /\ sysfs' = ApplyWrites(sysfs, r.ev)
    /\ pc' = "closeall"
    /\ UNCHANGED <<args, noisy, devs, out, dev, device_path, target>>

ScanRescan ==
    /\ pc = "scan"
    /\ \E rc \in {0, 1}, fails \in {{}, WriteLines(out, "Driver path")} :
         LET r == rescan(rc, out, IF rc = 0 THEN fails ELSE {}, noisy)
         IN  /\ log' = r.ev
             /\ exit' = r.exit
    /\ pc' = "rescan"
    /\ UNCHANGED <<args, noisy, devs, out, dev, sysfs, device_path, target>>

NextScan ==
    \/ ScanByIndex
    \/ ScanByPartition
    \/ ScanDriver
    \/ ScanCloseAll
    \/ ScanRescan

SpecScan == InitScan /\ [][NextScan]_vars

----------------------------------------------------------------------------
(* One run of the program: the specification Spec *)

Id_hvcs0 == <<"/", "d", "e", "v", "/", "h", "v", "c", "s", "0">>
Id_hvcs1 == <<"/", "d", "e", "v", "/", "h", "v", "c", "s", "1">>
Id_hvcs02 == <<"/", "d", "e", "v", "/", "h", "v", "c", "s", "0", "2">>
Id_hvc0 == <<"/", "d", "e", "v", "/", "h", "v", "c", "0">>
Id_bare00 == <<"h", "v", "c", "s", "0", "0">>

NodeIds == {Id_hvcs0, Id_hvcs1, Id_hvcs02, Id_hvc0, Id_bare00}

Invocations ==
    {[NoArgs EXCEPT !.status = TRUE],
     [NoArgs EXCEPT !.rescan = TRUE],
     [NoArgs EXCEPT !.all = TRUE],
     [NoArgs EXCEPT !.rescan = TRUE, !.all = TRUE],
     [NoArgs EXCEPT !.rescan = TRUE, !.close = Id_hvcs02],
     [NoArgs EXCEPT !.rescan = TRUE, !.close = Id_hvcs0]}
    \cup {[NoArgs EXCEPT !.close = x] : x \in NodeIds}
    \cup {[NoArgs EXCEPT !.node = x] : x \in NodeIds}
    \cup {[NoArgs EXCEPT !.console = x] : x \in {P15, P7}}

\* what /dev holds
AllNodes ==
    {<<"h", "v", "c", "s", "0">>, <<"h", "v", "c", "s", "1">>, <<"h", "v", "c", "s", "2">>, <<"h", "v", "c", "s", "0", "2">>, <<"h", "v", "c", "s", "1", "0">>, <<"t", "t", "y", "1">>}

DevSets == {AllNodes, {}}

Init ==
    /\ pc = "main"
    /\ devs \in MainConfigs
    /\ out = Render(devs)
    /\ sysfs = SysfsOf(devs)
    /\ args \in Invocations
    /\ noisy \in {0, 1}
    /\ dev \in DevSets
    /\ log = << >>
    /\ exit = -1
    /\ device_path = EmptyStr
    /\ target = EmptyStr

\* main's chain of ifs after rescan() returned (lines 646-660)
AfterRescan(a) ==
    IF a.all THEN "closeall"
    ELSE IF a.close # EmptyStr THEN "closedevice"
    ELSE IF a.node # EmptyStr THEN "querynode"
    ELSE IF a.console # EmptyStr THEN "queryconsole"
    ELSE "done"

\* main's chain of ifs after the two checks (lines 639-660)
FirstOp(a) ==
    IF a.status THEN "status"
    ELSE IF a.rescan THEN "rescan"
    ELSE AfterRescan(a)

\* the run ends: sys.exit(code), or main returns
Stop(code) == pc' = "done" /\ exit' = code

\* the run goes on at p, or main returns when nothing is left
GoOn(p) == pc' = p /\ exit' = IF p = "done" THEN 0 ELSE -1

load_platform_env_and_check ==
    /\ pc = "main"
    /\ \E supported \in BOOLEAN :
         IF supported
         THEN /\ log' = log \o <<ToolEv("bash pseries_platform", 0)>>
              /\ GoOn("findsystools")
         ELSE /\ log' = log \o <<ToolEv("bash pseries_platform", 0)>>
                            \o printout(EmptyStr, EmptyStr, "is not supported")
              /\ Stop(1)
    /\ UNCHANGED <<args, noisy, devs, out, dev, sysfs, device_path, target>>

findsystools ==
    /\ pc = "findsystools"
    /\ \E found \in BOOLEAN :
         IF found
         THEN /\ log' = log \o <<ToolEv("which systool", 0)>>
              /\ GoOn("is_driver_installed")
         ELSE /\ log' = log \o <<ToolEv("which systool", 1)>>
                            \o errorprint(EmptyStr, "systool is not installed")
              /\ Stop(1)
    /\ UNCHANGED <<args, noisy, devs, out, dev, sysfs, device_path, target>>

\* lines 636-637 of main
main_is_driver_installed ==
    /\ pc = "is_driver_installed"
    /\ \E rc \in {0, 1} :
         /\ log' = log \o is_driver_installed_log(rc, out)
         /\ IF is_driver_installed(rc, out) = EmptyStr
            THEN Stop(1)
            ELSE GoOn(FirstOp(args))
    /\ UNCHANGED <<args, noisy, devs, out, dev, sysfs, device_path, target>>

main_status ==
    /\ pc = "status"
    /\ \E failing \in SUBSET {i \in 1..Cardinality(dev) :
                                status_match(sorted(dev)[i]).ok} :
         LET r == status(dev, out, failing, sysfs, noisy)
         IN  /\ log' = log \o r.ev
             /\ Stop(IF r.exit = 1 THEN 1 ELSE 0)
    /\ UNCHANGED <<args, noisy, devs, out, dev, sysfs, device_path, target>>

main_rescan ==
    /\ pc = "rescan"
    /\ \E rc \in {0, 1}, fails \in SUBSET WriteLines(out, "Driver path") :
         LET r == rescan(rc, out, fails, noisy)
         IN  /\ rc # 0 => fails = {}
             /\ log' = log \o r.ev
             /\ IF r.exit = 1 THEN Stop(1) ELSE GoOn(AfterRescan(args))
    /\ UNCHANGED <<args, noisy, devs, out, dev, sysfs, device_path, target>>

main_closeall ==
    /\ pc = "closeall"
    /\ \E rc \in {0, 1}, fails \in SUBSET WriteLines(out, "vterm_state") :
         LET r == closeall(rc, out, fails, noisy)
         IN  /\ rc # 0 => fails = {}
             /\ log' = log \o r.ev
             /\ sysfs' = ApplyWrites(sysfs, r.ev)
             /\ Stop(IF r.exit = 1 THEN 1 ELSE 0)
    /\ UNCHANGED <<args, noisy, devs, out, dev, device_path, target>>

\* closedevice, lines 491-505
closedevice_check ==
    /\ pc = "closedevice"
    /\ LET r == check_node(args.close, dev)
       IN  /\ log' = log \o r.ev
           /\ IF r.exit = 1 THEN Stop(1) ELSE GoOn("close_resolve")
    /\ target' = getindex(args.close)
    /\ UNCHANGED <<args, noisy, devs, out, dev, sysfs, device_path>>

\* closedevice, lines 510-521
closedevice_resolve ==
    /\ pc = "close_resolve"
    /\ \E rc \in {0, 1} :
         LET p == get_device_path_by_index(target, rc, out)
             vstate_path == PathJoin(p, F_vterm_state)
             ev1 == by_index_log(target, rc, out, noisy)
         IN  IF p = EmptyStr
             THEN /\ log' = log \o ev1
                  /\ Stop(1)
                  /\ UNCHANGED device_path
             ELSE IF vstate_path \notin DOMAIN sysfs
             THEN /\ log' = log \o ev1
                            \o <<Ev("exists", vstate_path, EmptyStr, FALSE, "exists")>>
                            \o errorprint(p, "vterm_state attribute does not exist")
                  /\ Stop(1)
                  /\ UNCHANGED device_path
             ELSE /\ log' = log \o ev1
                            \o <<Ev("exists", vstate_path, EmptyStr, TRUE, "exists")>>
                  /\ device_path' = p
                  /\ GoOn("close_read")
    /\ UNCHANGED <<args, noisy, devs, out, dev, sysfs, target>>

\* closedevice, lines 523-530
closedevice_read ==
    /\ pc = "close_read"
    /\ LET vstate_path == PathJoin(device_path, F_vterm_state)
           catval == Strip(sysfs[vstate_path])
       IN  IF already_disconnected(catval)
           THEN /\ log' = log \o <<Ev("read", vstate_path, catval, TRUE, "read")>>
                          \o statusprint(noisy, device_path, "already disconnected")
                /\ Stop(0)
           ELSE /\ log' = log \o <<Ev("read", vstate_path, catval, TRUE, "read")>>
                /\ GoOn("close_write")
    /\ UNCHANGED <<args, noisy, devs, out, dev, sysfs, device_path, target>>

\* closedevice, lines 532-536
closedevice_write ==
    /\ pc = "close_write"
    /\ \E outcome \in WriteOutcomes :
         LET vstate_path == PathJoin(device_path, F_vterm_state)
             w == WriteEv(vstate_path, <<"0">>, outcome # "raised")
         IN  /\ log' = log \o <<w>>
             /\ sysfs' = IF outcome = "accepted" THEN ApplyWrites(sysfs, <<w>>)
                         ELSE sysfs
    /\ GoOn("close_verify")
    /\ UNCHANGED <<args, noisy, devs, out, dev, device_path, target>>

\* closedevice, lines 538-550
closedevice_verify ==
    /\ pc = "close_verify"
    /\ LET vstate_path == PathJoin(device_path, F_vterm_state)
           cat == Strip(sysfs[vstate_path])
           vty_server == SuffixAfter3(device_path, Digits)
       IN  IF ~disconnected(cat)
           THEN /\ log' = log \o <<Ev("read", vstate_path, cat, TRUE, "read")>>
                          \o errorprint(device_path, "disconnection failed")
                          \o errorprint(EmptyStr, "please check dmesg")
                /\ Stop(1)
           ELSE /\ log' = log \o <<Ev("read", vstate_path, cat, TRUE, "read")>>
                          \o statusprint(noisy, vty_server, "is mapped to vty-server")
                          \o statusprint(noisy, vty_server, "closed")
                /\ Stop(0)
    /\ UNCHANGED <<args, noisy, devs, out, dev, sysfs, device_path, target>>

\* querynode, lines 427-440
querynode_check ==
    /\ pc = "querynode"
    /\ LET r == check_node(args.node, dev)
       IN  /\ log' = log \o r.ev
           /\ IF r.exit = 1 THEN Stop(1) ELSE GoOn("query_resolve")
    /\ target' = getindex(args.node)
    /\ UNCHANGED <<args, noisy, devs, out, dev, sysfs, device_path>>

\* querynode, lines 444-447
querynode_display ==
    /\ pc = "query_resolve"
    /\ \E rc \in {0, 1} :
         LET p == get_device_path_by_index(target, rc, out)
             ev1 == by_index_log(target, rc, out, noisy)
             d == displaybypath(p, sysfs)
         IN  /\ device_path' = p
             /\ IF p = EmptyStr
                THEN log' = log \o ev1 /\ Stop(0)
                ELSE log' = log \o ev1 \o d.ev
                     /\ Stop(IF d.exit = 1 THEN 1 ELSE 0)
    /\ UNCHANGED <<args, noisy, devs, out, dev, sysfs, target>>

queryconsole ==
    /\ pc = "queryconsole"
    /\ \E rc \in {0, 1} :
         LET p == get_device_path_by_partition(args.console, rc, out)
             ev1 == by_partition_log(args.console, rc, out, noisy)
             d == displaybypath(p, sysfs)
         IN  /\ device_path' = p
             /\ IF p = EmptyStr
                THEN log' = log \o ev1 /\ Stop(0)
                ELSE log' = log \o ev1 \o d.ev
                     /\ Stop(IF d.exit = 1 THEN 1 ELSE 0)
    /\ target' = args.console
    /\ UNCHANGED <<args, noisy, devs, out, dev, sysfs>>

Next ==
    \/ load_platform_env_and_check
    \/ findsystools
    \/ main_is_driver_installed
    \/ main_status
    \/ main_rescan
    \/ main_closeall
    \/ closedevice_check
    \/ closedevice_resolve
    \/ closedevice_read
    \/ closedevice_write
    \/ closedevice_verify
    \/ querynode_check
    \/ querynode_display
    \/ queryconsole

Spec == Init /\ [][Next]_vars

----------------------------------------------------------------------------
(* Runs on a machine where an attribute file may be missing: SpecAttr *)

AttrFiles == {F_current_vty, F_index, F_vterm_state}

\* adapters of the configured driver, free or connected
AttrConfigs ==
    UNION {{[i \in 1..n |-> Device(i, DRIVER, <<DigitChar(i - 1)>>, VtyAt(i),
                                    v[i])] : v \in [1..n -> {<<"0">>, <<"1">>}]}
           : n \in 1..MaxDevs}

\* no file, or one attribute file of one device
MissingChoices(ds) ==
    {{}} \cup {{PathJoin(ds[i].path, f)} : i \in 1..Len(ds), f \in AttrFiles}

Without(fs, paths) == [q \in (DOMAIN fs) \ paths |-> fs[q]]

\* contents of current_vty that the location-code grammar does not match
MalformedVty == {BadVty(MachineSerial \o <<"-", "V">> \o P15), BadVty(EmptyStr)}

\* ds with the current_vty of one device malformed
WithMalformedVty(ds) ==
    {[ds EXCEPT ![i].vty = b] : i \in 1..Len(ds), b \in MalformedVty}

InitAttr ==
    /\ pc = "main"
    /\ \E base \in AttrConfigs : devs \in {base} \cup WithMalformedVty(base)
    /\ out = Render(devs)
    /\ \E miss \in (IF devs \in AttrConfigs THEN MissingChoices(devs) ELSE {{}}) :
           sysfs = Without(SysfsOf(devs), miss)
    /\ args \in Invocations
    /\ noisy \in {0, 1}
    /\ dev \in DevSets
    /\ log = << >>
    /\ exit = -1
    /\ device_path = EmptyStr
    /\ target = EmptyStr

SpecAttr == InitAttr /\ [][Next]_vars

----------------------------------------------------------------------------
(* Reading the log of a run *)

SetMax(S) == CHOOSE x \in S : \A y \in S : y <= x

\* the position of the /dev check: closedevice's and querynode's own I/O follows it
OpStart ==
    LET c == {i \in DOMAIN log : log[i].op = "devcheck"}
    IN  IF c = {} THEN Len(log) + 1 ELSE SetMin(c)

ReadsAt == {i \in DOMAIN log : log[i].op = "read"}

\* the writes closedevice made
CloseWritesAt == {i \in DOMAIN log : i > OpStart /\ log[i].op = "write"}

HasMsg(op, msg) == \E i \in DOMAIN log : log[i].op = op /\ log[i].msg = msg

\* the digits a device-node identifier ends with
TrailingDigits(s) ==
    LET nd == {k \in 1..Len(s) : s[k] \notin Digits}
    IN  SubSeq(s, (IF nd = {} THEN 0 ELSE SetMax(nd)) + 1, Len(s))

LeadingZeroIndex(s) ==
    Len(TrailingDigits(s)) >= 2 /\ TrailingDigits(s)[1] = "0"

\* the identifier given to -close or -node
Param == IF args.close # EmptyStr THEN args.close ELSE args.node

IsInvalidIdReport(e) ==
    /\ e.op = "errorprint"
    /\ e.msg \in {"invalid device node name", "invalid device node number"}

IsIO(e) == e.op \in {"tool", "devcheck", "exists", "read", "write"}

----------------------------------------------------------------------------
(* C1 *)

\* C1: when closedevice's read of vterm_state returns "0" (the file's text,
\* stripped), the run has ended with status 0 and closedevice has written
\* nothing: no write follows the /dev check and every attribute file is as
\* it was.
C1_FreeDeviceNoWrite ==
    args.close # EmptyStr =>
        \A i \in ReadsAt :
            (i = SetMin(ReadsAt) /\ log[i].val = <<"0">>) =>
                /\ pc = "done"
                /\ exit = 0
                /\ CloseWritesAt = {}
                /\ sysfs = SysfsOf(devs)

C1_Witness ==
    /\ args.close = Id_hvcs1
    /\ pc = "done"
    /\ exit = 0
    /\ ReadsAt # {}
    /\ log[SetMin(ReadsAt)].val = <<"0">>
    /\ log[SetMin(ReadsAt)].path = PathJoin(devs[2].path, F_vterm_state)

----------------------------------------------------------------------------
(* C2 *)

\* C2: closedevice writes at most once, "0" to the vterm_state file of the
\* resolved device; the write, raised or not, is followed by exactly one
\* read of that file and by no other read or write; the run ends with
\* status 0 exactly when that read returned "0", and otherwise with status 1
\* right after the report that the disconnection failed.
C2_SingleWriteVerified ==
    args.close # EmptyStr =>
        /\ Cardinality(CloseWritesAt) <= 1
        /\ \A w \in CloseWritesAt :
             LET after == {r \in DOMAIN log : r > w /\ log[r].op \in {"read", "write"}}
             IN  /\ log[w].val = <<"0">>
                 /\ log[w].path = PathJoin(device_path, F_vterm_state)
                 /\ Cardinality(after) <= 1
                 /\ pc = "done" => Cardinality(after) = 1
                 /\ pc # "done" => after = {} /\ pc = "close_verify"
                 /\ \A r \in after :
                      /\ r = w + 1
                      /\ log[r].op = "read"
                      /\ log[r].path = log[w].path
                      /\ pc = "done"
                      /\ exit = 0 <=> log[r].val = <<"0">>
                      /\ log[r].val # <<"0">> =>
                           /\ exit = 1
                           /\ Len(log) = r + 2
                           /\ log[r + 1].op = "errorprint"
                           /\ log[r + 1].msg = "disconnection failed"
                           /\ log[r + 2].op = "errorprint"
                      /\ (log[r].val = <<"0">> /\ noisy > 0) =>
                           log[Len(log)].op = "statusprint"
                           /\ log[Len(log)].msg = "closed"

\* the write raised, the file still reads "1", the run failed
C2_Witness ==
    /\ args.close # EmptyStr
    /\ pc = "done"
    /\ exit = 1
    /\ \E w \in CloseWritesAt :
         /\ ~log[w].ok
         /\ w + 1 \in ReadsAt
         /\ log[w + 1].val = <<"1">>

----------------------------------------------------------------------------
(* C3 *)

\* C3: when the identifier given to -close or -node ends in a zero followed
\* by more digits, the run never checks /dev, never runs systool for an
\* index and never reaches a later step of closedevice or querynode, and it
\* ends with status 1 after an error message.
C3_LeadingZeroRejected ==
    (Param # EmptyStr /\ LeadingZeroIndex(Param)) =>
        /\ \A i \in DOMAIN log :
             /\ log[i].op # "devcheck"
             /\ ~(log[i].op = "tool" /\ log[i].msg = "systool -A index")
        /\ pc \notin {"close_resolve", "close_read", "close_write",
                      "close_verify", "query_resolve"}
        /\ pc = "done" =>
             /\ exit = 1
             /\ log[Len(log)].op \in {"errorprint", "print"}

\* /dev/hvcs02 exists and is still refused, by closedevice
C3_Witness ==
    /\ args.close = Id_hvcs02
    /\ Id_hvcs02 = DevPrefix \o GLOBAL_NODE_NAME \o <<"0", "2">>
    /\ (GLOBAL_NODE_NAME \o <<"0", "2">>) \in dev
    /\ pc = "done"
    /\ exit = 1
    /\ log[Len(log)].msg = "invalid device node number"

----------------------------------------------------------------------------
(* C4 *)

\* C4 as claimed: no tool invocation, /dev check, read or write precedes the
\* report of an invalid identifier.
C4_NoIOBeforeReport ==
    \A i \in DOMAIN log :
        IsInvalidIdReport(log[i]) => \A j \in 1..(i - 1) : ~IsIO(log[j])

\* the steps of main that come before closedevice and querynode
IsPreamble(e) ==
    \/ e.op = "tool" /\ e.msg \in {"bash pseries_platform", "which systool", "systool"}
    \/ e.op = "write" /\ args.rescan /\ e.val = <<"1">>
    \/ e.op \in {"statusprint", "errorprint"}

\* C4 amended: the report of an invalid identifier ends the run with status 1,
\* and before it the run did only main's own steps: the platform check, the
\* look for systool, the driver-present scan and, with -rescan, rescan's scan
\* and its write to the rescan attribute.  No /dev check, no systool run for
\* an index and no read or write of a device's attribute file precedes it.
C4_NoOperationIOBeforeReport ==
    \A i \in DOMAIN log :
        IsInvalidIdReport(log[i]) =>
            /\ \A j \in 1..(i - 1) : IsPreamble(log[j])
            /\ i = Len(log)
            /\ pc = "done"
            /\ exit = 1
            /\ sysfs = SysfsOf(devs)

\* an invalid name is reported after rescan wrote
C4_Witness ==
    /\ args.rescan
    /\ args.close = Id_hvcs02
    /\ log # << >>
    /\ IsInvalidIdReport(log[Len(log)])
    /\ \E j \in DOMAIN log : log[j].op = "write" /\ log[j].ok

----------------------------------------------------------------------------
(* C5 *)

IsClose(e) == e.op = "write" /\ e.val = <<"0">>

\* the vterm_state files of the Connected adapters of the driver, in order
RECURSIVE ConnectedFiles(_)
ConnectedFiles(ds) ==
    IF ds = << >> THEN << >>
    ELSE (IF Head(ds).drv = DRIVER /\ Head(ds).vterm = <<"1">>
          THEN <<PathJoin(Head(ds).path, F_vterm_state)>>
          ELSE << >>)
         \o ConnectedFiles(Tail(ds))

ClosesLogged == SelectSeq(log, IsClose)

\* C5: when closeall has scanned systool's output, the writes of "0" it
\* attempted, failed ones included, are one to the vterm_state file of each
\* Connected adapter of the configured driver, in systool's order, and no
\* other.
C5_CloseAllAttemptsEach ==
    (pc = "done" /\ args.all /\ HasMsg("tool", "systool -A vterm_state")
     /\ \A i \in DOMAIN log : log[i].op = "tool" => log[i].ok) =>
        /\ Len(ClosesLogged) = Len(ConnectedFiles(devs))
        /\ \A k \in 1..Len(ClosesLogged) :
             ClosesLogged[k].path = ConnectedFiles(devs)[k]

\* three Connected adapters, the second write fails, the third is attempted
C5_Witness ==
    /\ pc = "done"
    /\ args.all
    /\ Len(ClosesLogged) = 3
    /\ ClosesLogged[1].ok
    /\ ~ClosesLogged[2].ok
    /\ ClosesLogged[3].ok
    /\ ClosesLogged[3].path = PathJoin(devs[3].path, F_vterm_state)

----------------------------------------------------------------------------
(* C6 *)

\* C6: every write closeall attempts is followed by a report of its outcome
\* for that adapter (a success may stay silent at noise level 0, as the help
\* text says of every success).
C6_EveryAttemptReported ==
    args.all =>
        \A i \in DOMAIN log :
            IsClose(log[i]) =>
                \/ log[i].ok /\ noisy = 0
                \/ /\ i < Len(log)
                   /\ log[i + 1].op \in {"statusprint", "errorprint"}

----------------------------------------------------------------------------
(* Reading the result of a scan *)

\* systool exited 0 in the scan just made
ToolOk == log # << >> /\ log[1].op = "tool" /\ log[1].ok

\* the stream is what systool prints for the devices devs
IsRendered == out = Render(devs)

\* the Driver line a line stands under names the configured driver
UnderDriver(lines, i) ==
    LET ds == {j \in 1..(i - 1) : lines[j].key = "Driver"}
    IN  ds # {} /\ lines[SetMax(ds)].val = DRIVER

----------------------------------------------------------------------------
(* C7 *)

\* the devices of the configured driver whose index is, as text, t
WithIndex(ds, t) == {i \in 1..Len(ds) : ds[i].drv = DRIVER /\ ds[i].index = t}

\* C7: on systool's output for any devices, get_device_path_by_index returns
\* the path of the one device of the configured driver whose index is the
\* target character for character, and the empty string, with no error
\* message, when there is no such device.
C7_ResolveByIndex ==
    (pc = "by_index" /\ ToolOk /\ IsRendered) =>
        /\ \A i \in WithIndex(devs, target) :
             WithIndex(devs, target) = {i} =>
                 device_path = devs[i].path /\ device_path # EmptyStr
        /\ WithIndex(devs, target) = {} =>
             /\ device_path = EmptyStr
             /\ \A k \in DOMAIN log : log[k].op # "errorprint"

\* index "2" is resolved past an adapter of the driver whose index is "02"
C7_Witness ==
    /\ pc = "by_index"
    /\ ToolOk
    /\ IsRendered
    /\ target = <<"2">>
    /\ Len(devs) = 3
    /\ devs[1].drv = DRIVER /\ devs[1].index = <<"0", "2">>
    /\ devs[2].drv = OtherDriver /\ devs[2].index = <<"2">>
    /\ devs[3].drv = DRIVER /\ devs[3].index = <<"2">>
    /\ device_path = devs[3].path

----------------------------------------------------------------------------
(* C8 *)

\* the slot-0 adapters of the configured driver connected to partition t
ConsolesOf(ds, t) ==
    {i \in 1..Len(ds) : /\ ds[i].drv = DRIVER
                        /\ ds[i].vty.wf
                        /\ ds[i].vty.partition = t
                        /\ ds[i].vty.slot = <<"0">>}

\* C8: on systool's output for any devices, get_device_path_by_partition
\* returns the path of the first device of the configured driver whose
\* current_vty is a location code with the target partition and slot "0",
\* and the empty string when there is none: another slot, another partition,
\* another driver or text that is no location code never matches.
C8_ResolveByPartition ==
    (pc = "by_partition" /\ ToolOk /\ IsRendered) =>
        IF ConsolesOf(devs, target) = {}
        THEN device_path = EmptyStr
        ELSE device_path = devs[SetMin(ConsolesOf(devs, target))].path

\* a slot-1 adapter of the partition comes first, then two consoles
C8_Witness ==
    /\ pc = "by_partition"
    /\ ToolOk
    /\ IsRendered
    /\ target = P15
    /\ Len(devs) = 3
    /\ devs[1].drv = DRIVER /\ devs[1].vty = GoodVty(P15, <<"1">>)
    /\ ConsolesOf(devs, target) = {2, 3}
    /\ device_path = devs[2].path

----------------------------------------------------------------------------
(* C9 *)

IsPathOfDriver(lines, key, p) ==
    \E j \in 1..Len(lines) :
        lines[j].key = key /\ lines[j].val = p /\ UnderDriver(lines, j)

\* C9: whatever the lines and their order, a scan returns a path or writes
\* only for a line that stands under a Driver line naming the configured
\* driver, with no other Driver line in between: the two resolutions and the
\* driver-present check return such a line's path or nothing, closeall
\* writes once for each such vterm_state "1" line and rescan only to the
\* rescan attribute of such a Driver path line.
C9_OnlyConfiguredDriver ==
    /\ (pc = "by_index" /\ device_path # EmptyStr) =>
         \E i \in 1..Len(out) :
             /\ out[i].key = "index" /\ out[i].val = target
             /\ UnderDriver(out, i)
             /\ \E j \in 1..(i - 1) :
                  /\ out[j].key = "Device path" /\ out[j].val = device_path
                  /\ UnderDriver(out, j)
    /\ (pc = "by_partition" /\ device_path # EmptyStr) =>
         \E i \in 1..Len(out) :
             /\ out[i].key = "current_vty"
             /\ UnderDriver(out, i)
             /\ \E j \in 1..(i - 1) :
                  /\ out[j].key = "Device path" /\ out[j].val = device_path
                  /\ UnderDriver(out, j)
    /\ (pc = "driver" /\ device_path # EmptyStr) =>
         IsPathOfDriver(out, "Driver path", device_path)
    /\ pc = "closeall" =>
         /\ Len(ClosesLogged)
              = Cardinality({i \in 1..Len(out) :
                                /\ out[i].key = "vterm_state"
                                /\ out[i].val = <<"1">>
                                /\ UnderDriver(out, i) /\ ToolOk})
         /\ \A k \in 1..Len(ClosesLogged) :
              \/ ClosesLogged[k].path = F_vterm_state
              \/ \E j \in 1..Len(out) :
                   /\ out[j].key = "Device path"
                   /\ UnderDriver(out, j)
                   /\ ClosesLogged[k].path = PathJoin(out[j].val, F_vterm_state)
    /\ pc = "rescan" =>
         \A k \in DOMAIN log :
             log[k].op = "write" =>
                 \E j \in 1..Len(out) :
                     /\ out[j].key = "Driver path"
                     /\ UnderDriver(out, j)
                     /\ log[k].path = PathJoin(out[j].val, F_rescan)

\* a path and the index asked for come before any Driver line: no result
C9_Witness ==
    /\ pc = "by_index"
    /\ ToolOk
    /\ Len(out) = 3
    /\ out[1].key = "Device path"
    /\ out[2].key = "index" /\ out[2].val = target
    /\ out[3].key = "Driver" /\ out[3].val = DRIVER
    /\ device_path = EmptyStr

----------------------------------------------------------------------------
(* C10 *)

----------------------------------------------------------------------------
(* C11 *)

\* a line that matches none of the regexes, though its text names the driver
Junk == Line("other", DRIVER)

\* the stream without its unrecognised lines
NonOther(lines) == SelectSeq(lines, LAMBDA l : l.key # "other")

\* the stream with one more line after position p
InsertAt(lines, p, l) ==
    SubSeq(lines, 1, p) \o <<l>> \o SubSeq(lines, p + 1, Len(lines))

\* the longest stream into which a line is inserted at every position: what
\* systool prints for two adapters of different drivers
MaxInsertLen == 17

\* the streams that differ from out by unrecognised lines only: out without
\* them and, for streams of up to MaxInsertLen lines, out with one more at
\* any position
Variants ==
    {NonOther(out)}
    \cup (IF Len(out) <= MaxInsertLen
          THEN {InsertAt(out, p, Junk) : p \in 0..Len(out)}
          ELSE {})

\* the writes of the scan just made were made to fail
WritesFailed == \E i \in DOMAIN log : log[i].op = "write" /\ ~log[i].ok

\* the same choice of failing writes on another stream
FailsOn(lines, key) == IF WritesFailed THEN WriteLines(lines, key) ELSE {}

\* C11: removing the unrecognised lines of the scanned stream, or inserting
\* one at any position, changes nothing: resolveByIndex and
\* resolveByPartition return the same path and print the same, closeall and
\* rescan make the same writes and reports in the same order, and no scan
\* ends in an error the tool's exit status did not cause.
C11_UnrecognisedLinesSkipped ==
    /\ (pc = "by_index" /\ ToolOk) =>
         \A v \in Variants :
             /\ device_path = get_device_path_by_index(target, 0, v)
             /\ log = by_index_log(target, 0, v, noisy)
    /\ (pc = "by_partition" /\ ToolOk) =>
         \A v \in Variants :
             /\ device_path = get_device_path_by_partition(target, 0, v)
             /\ log = by_partition_log(target, 0, v, noisy)
    /\ (pc = "closeall" /\ ToolOk) =>
         /\ exit = -1
         /\ \A v \in Variants :
                log = closeall(0, v, FailsOn(v, "vterm_state"), noisy).ev
    /\ (pc = "rescan" /\ ToolOk) =>
         /\ exit = -1
         /\ \A v \in Variants :
                log = rescan(0, v, FailsOn(v, "Driver path"), noisy).ev

\* an index was resolved across an unrecognised line that stands between the
\* Driver line and the index line of the block
C11_Witness ==
    /\ pc = "by_index"
    /\ device_path # EmptyStr
    /\ \E i, j, k \in DOMAIN out :
         /\ i < j /\ j < k
         /\ out[i].key = "Driver" /\ out[i].val = DRIVER
         /\ out[j].key = "other"
         /\ out[k].key = "index" /\ out[k].val = target
         /\ \A m \in (i + 1)..(k - 1) : out[m].key \notin {"Driver", "index"}

----------------------------------------------------------------------------
(* C12 *)

\* the Driver path lines that stand under the configured driver
DriverPathLines(lines) ==
    {j \in 1..Len(lines) : lines[j].key = "Driver path" /\ UnderDriver(lines, j)}

\* the writes of the scan just made, in order
WritesLogged == SelectSeq(log, LAMBDA e : e.op = "write")

\* C12: rescan attempts one write of "1", to the rescan attribute of the
\* first Driver path line of the configured driver, and none to a later
\* one, whether the write raises or not.
C12_OnlyFirstRescanTriggered ==
    (pc = "rescan" /\ ToolOk) =>
        IF DriverPathLines(out) = {}
        THEN WritesLogged = << >>
        ELSE /\ Len(WritesLogged) = 1
             /\ WritesLogged[1].val = <<"1">>
             /\ WritesLogged[1].path
                  = PathJoin(out[SetMin(DriverPathLines(out))].val, F_rescan)

----------------------------------------------------------------------------
(* C13 *)

IsRescanNotFound(e) ==
    e.op = "errorprint" /\ e.msg = "rescan attribute not found"

\* C13: once rescan has reported that it found no rescan attribute to
\* trigger, the run is over with a non-zero status and nothing was done
\* after the report.
C13_RescanNotFoundTerminal ==
    \A i \in DOMAIN log :
        IsRescanNotFound(log[i]) =>
            /\ pc = "done"
            /\ exit # 0
            /\ i = Len(log)

----------------------------------------------------------------------------
(* C14 *)

HasAllFiles(path) == \A f \in AttrFiles : PathJoin(path, f) \in DOMAIN sysfs

\* every tool run of the log exited 0
AllToolsOk == \A i \in DOMAIN log : log[i].op = "tool" => log[i].ok

\* the run got as far as a resolution by index / by partition
Resolved ==
    \E i \in DOMAIN log :
        /\ log[i].op = "tool"
        /\ log[i].msg \in {"systool -A index", "systool -A current_vty"}

\* the devices status looks at, in its order: those whose node /dev holds
Enumerated ==
    {i \in 1..Len(devs) :
        devs[i].drv = DRIVER /\ (GLOBAL_NODE_NAME \o devs[i].index) \in dev}

\* the device paths of the status lines printed, in order
StatusLinePaths ==
    LET ls == SelectSeq(log, LAMBDA e : e.op = "print" /\ e.msg = "status line")
    IN  [k \in 1..Len(ls) |-> ls[k].path]

IsMissingReport(e) ==
    /\ e.op = "errorprint"
    /\ e.msg \in {"current_vty attribute does not exist",
                  "index attribute does not exist",
                  "vterm_state attribute does not exist"}

\* C14: when status, -node or -console comes to a resolved device that lacks
\* one of current_vty, index and vterm_state, no status line is printed for
\* it, the missing attribute is reported, and the run ends there with a
\* non-zero status: status prints lines for the devices before it and for
\* none after it.
C14_MissingAttributeFatal ==
    (pc = "done" /\ AllToolsOk /\ Resolved) =>
        /\ args.status =>
             LET bad == {i \in Enumerated : ~HasAllFiles(devs[i].path)}
             IN  bad # {} =>
                   /\ exit = 1
                   /\ IsMissingReport(log[Len(log)])
                   /\ log[Len(log)].path = devs[SetMin(bad)].path
                   /\ \A i \in Enumerated :
                        (\E k \in DOMAIN StatusLinePaths :
                            StatusLinePaths[k] = devs[i].path)
                          <=> i < SetMin(bad)
        /\ ((args.node # EmptyStr \/ args.console # EmptyStr)
            /\ device_path # EmptyStr /\ ~HasAllFiles(device_path)) =>
                   /\ exit = 1
                   /\ IsMissingReport(log[Len(log)])
                   /\ log[Len(log)].path = device_path
                   /\ StatusLinePaths = << >>

\* status printed the first device, found index missing under the second of
\* three and ended there
C14_Witness ==
    /\ pc = "done"
    /\ args.status
    /\ AllToolsOk
    /\ Len(devs) = 3
    /\ Enumerated = {1, 2, 3}
    /\ PathJoin(devs[2].path, F_index) \notin DOMAIN sysfs
    /\ StatusLinePaths = <<devs[1].path>>
    /\ exit = 1

----------------------------------------------------------------------------
(* C15 *)

\* the name is the node prefix followed by one or more digits
IsNodeName(e) ==
    /\ Len(TrailingDigits(e)) >= 1
    /\ e = GLOBAL_NODE_NAME \o TrailingDigits(e)

\* the resolutions by index the run made, in order
IndexCalls ==
    SelectSeq(log, LAMBDA e : e.op = "tool" /\ e.msg = "systool -A index")

\* C15: a status run resolves once for each entry of /dev named hvcs<digits>
\* and for no other entry, with all the digits of the name: with the
\* success messages on, every such entry that no adapter's index equals is
\* reported as not mapped under its full digit string.
C15_StatusConsidersEveryNode ==
    (pc = "done" /\ args.status /\ exit = 0) =>
        LET nodes == {e \in dev : IsNodeName(e)}
        IN  /\ Len(IndexCalls) = Cardinality(nodes)
            /\ (noisy = 1 /\ AllToolsOk) =>
                 \A e \in nodes :
                     WithIndex(devs, TrailingDigits(e)) = {} =>
                         \E i \in DOMAIN log :
                             /\ log[i].op = "statusprint"
                             /\ log[i].msg = "does not map to a vty-server adapter"
                             /\ log[i].path = TrailingDigits(e)

----------------------------------------------------------------------------
(* C16 *)

\* the two checks of main passed: the operation asked for was started
ChecksPassed ==
    /\ \E i \in DOMAIN log :
         log[i].op = "tool" /\ log[i].msg = "systool" /\ log[i].ok
    /\ ~HasMsg("errorprint", "is not loaded")

\* the entries of /dev status resolves, in its order
Considered == SelectSeq(sorted(dev), LAMBDA e : status_match(e).ok)

\* the adapters the k-th entry status resolves maps to
MappedTo(k) == WithIndex(devs, status_match(Considered[k]).index)

\* C16: in a status run whose tool runs all exit 0, an entry that maps to no
\* adapter is passed over and the enumeration goes on to the last entry:
\* each entry that maps to an adapter gets exactly one status line, the
\* run ends with status 0, and "no hvcs adapters found" is printed exactly
\* when no entry mapped to an adapter.
C16_NotFoundIsSkipped ==
    (pc = "done" /\ args.status /\ ChecksPassed /\ AllToolsOk) =>
        /\ exit = 0
        /\ Len(IndexCalls) = Len(Considered)
        /\ \A k \in DOMAIN Considered :
             \A i \in MappedTo(k) :
                 Cardinality({j \in DOMAIN StatusLinePaths :
                                 StatusLinePaths[j] = devs[i].path}) = 1
        /\ Len(StatusLinePaths)
             = Cardinality({k \in DOMAIN Considered : MappedTo(k) # {}})
        /\ HasMsg("print", "no hvcs adapters found")
             <=> \A k \in DOMAIN Considered : MappedTo(k) = {}

\* hvcs0 maps to no adapter of the driver, hvcs1 after it does and is listed
C16_Witness ==
    /\ pc = "done"
    /\ args.status
    /\ ChecksPassed
    /\ AllToolsOk
    /\ dev = AllNodes
    /\ Len(devs) = 2
    /\ devs[1].drv = OtherDriver
    /\ devs[2].drv = DRIVER
    /\ StatusLinePaths = <<devs[2].path>>
    /\ exit = 0

----------------------------------------------------------------------------
(* C17 *)

\* a targeted operation resolved its target, every tool run exited 0, and no
\* adapter of the driver has the index, or is the partition's console
NothingFound ==
    /\ Resolved
    /\ AllToolsOk
    /\ \/ (args.close # EmptyStr \/ args.node # EmptyStr)
            /\ WithIndex(devs, target) = {}
       \/ args.console # EmptyStr /\ ConsolesOf(devs, args.console) = {}

\* C17: a -close, -node or -console run whose target resolves to nothing
\* ends with a non-zero status.
C17_NotFoundFatal ==
    (pc = "done" /\ ~args.status /\ NothingFound) => exit # 0

----------------------------------------------------------------------------
(* C18 *)

\* the node -close names, as /dev would hold it
CloseNode == GLOBAL_NODE_NAME \o TrailingDigits(args.close)

\* the adapters -close is to disconnect
CloseTargets == WithIndex(devs, TrailingDigits(args.close))

\* the first position of an event of the log, 0 when there is none
FirstAt(op, msg, ok) ==
    LET at == {i \in DOMAIN log :
                  log[i].op = op /\ log[i].msg = msg /\ log[i].ok = ok}
    IN  IF at = {} THEN 0 ELSE SetMin(at)

\* C18: closedevice writes only after its checks passed in order: the name
\* is hvcs<digits> without a leading zero, /dev holds the node, the index
\* resolved to an adapter, and that adapter's vterm_state file exists. When
\* /dev lacks the node, no adapter has the index, or the vterm_state file
\* is missing, the run ends with a non-zero status and closedevice has
\* written nothing.
C18_WriteAfterAllChecks ==
    args.close # EmptyStr =>
        /\ \A i \in CloseWritesAt :
             /\ getnodename(args.close) = GLOBAL_NODE_NAME
             /\ ~LeadingZeroIndex(args.close)
             /\ CloseNode \in dev
             /\ \E d \in CloseTargets :
                  /\ device_path = devs[d].path
                  /\ log[i].path = PathJoin(devs[d].path, F_vterm_state)
                  /\ log[i].path \in DOMAIN sysfs
             /\ 0 < FirstAt("devcheck", "exists", TRUE)
             /\ FirstAt("devcheck", "exists", TRUE)
                  < FirstAt("tool", "systool -A index", TRUE)
             /\ FirstAt("tool", "systool -A index", TRUE)
                  < FirstAt("exists", "exists", TRUE)
             /\ FirstAt("exists", "exists", TRUE) < i
        /\ (/\ pc = "done"
            /\ ChecksPassed
            /\ \/ CloseNode \notin dev
               \/ CloseTargets = {}
               \/ \E d \in CloseTargets :
                    PathJoin(devs[d].path, F_vterm_state) \notin DOMAIN sysfs) =>
             /\ exit # 0
             /\ CloseWritesAt = {}

\* /dev holds the node and the index resolved to a connected adapter, but the
\* adapter has no vterm_state file: reported, status 1, nothing written
C18_Witness ==
    /\ pc = "done"
    /\ args.close = Id_hvcs0
    /\ ChecksPassed
    /\ CloseNode \in dev
    /\ CloseTargets = {1}
    /\ devs[1].vterm = <<"1">>
    /\ PathJoin(devs[1].path, F_vterm_state) \notin DOMAIN sysfs
    /\ HasMsg("errorprint", "vterm_state attribute does not exist")
    /\ CloseWritesAt = {}
    /\ exit = 1

----------------------------------------------------------------------------
(* C19 *)

\* C19: when a tool run exits non-zero, the run ends with a non-zero status
\* and nothing but error messages follows the failed tool run: no further
\* tool run, no file access, no status line.
C19_ToolFailureFatal ==
    \A i \in DOMAIN log :
        (log[i].op = "tool" /\ ~log[i].ok) =>
            /\ pc = "done"
            /\ exit # 0
            /\ \A j \in (i + 1)..Len(log) : log[j].op = "errorprint"

----------------------------------------------------------------------------
(* C20 *)

\* the positions of the runs of a command
ToolRuns(cmd) == {i \in DOMAIN log : log[i].op = "tool" /\ log[i].msg = cmd}

\* the position of the driver-present check: the first systool -b vio -D -p
DriverCheckAt ==
    IF ToolRuns("systool") = {} THEN 0 ELSE SetMin(ToolRuns("systool"))

\* what status, rescan, closeall, closedevice, querynode and queryconsole do
IsOperationEvent(i) ==
    \/ log[i].op \in {"devcheck", "exists", "read", "write", "statusprint"}
    \/ log[i].op = "tool"
         /\ log[i].msg \in {"systool -A index", "systool -A current_vty",
                            "systool -A vterm_state"}
    \/ log[i].op = "tool" /\ log[i].msg = "systool" /\ i > DriverCheckAt
    \/ log[i].op = "print"
         /\ log[i].msg \in {"status line", "no hvcs adapters found"}
    \/ IsInvalidIdReport(log[i])
    \/ IsRescanNotFound(log[i])

\* an operation is about to run, is running, or has left a trace
OperationStarted ==
    \/ pc \notin {"main", "findsystools", "is_driver_installed", "done"}
    \/ \E i \in DOMAIN log : IsOperationEvent(i)

\* one of the two checks was made and did not pass
CheckFailed ==
    \/ \E i \in ToolRuns("which systool") : ~log[i].ok
    \/ DriverCheckAt # 0 /\ ~log[DriverCheckAt].ok
    \/ HasMsg("errorprint", "is not loaded")

\* C20: systool is looked for once and the driver-present scan is made once
\* (the one other run of the same command is rescan's own scan); whatever an
\* operation does comes after both, and only when both passed; when either
\* fails the run ends with a non-zero status and no operation has started.
C20_ChecksOnceBeforeAnyQuery ==
    /\ Cardinality(ToolRuns("which systool")) <= 1
    /\ Cardinality(ToolRuns("systool"))
         <= (IF args.rescan /\ ~args.status THEN 2 ELSE 1)
    /\ OperationStarted =>
         /\ \E w \in ToolRuns("which systool") :
              /\ log[w].ok
              /\ w < DriverCheckAt
         /\ log[DriverCheckAt].ok
         /\ ~HasMsg("errorprint", "is not loaded")
         /\ \A i \in DOMAIN log : IsOperationEvent(i) => i > DriverCheckAt
    /\ CheckFailed =>
         /\ pc = "done"
         /\ exit # 0
         /\ ~OperationStarted

\* both checks passed, then closeall wrote to an adapter
C20_Witness ==
    /\ pc = "done"
    /\ args.all
    /\ \E w \in ToolRuns("which systool") : log[w].ok /\ w < DriverCheckAt
    /\ log[DriverCheckAt].ok
    /\ \E i \in DOMAIN log : log[i].op = "write" /\ i > DriverCheckAt

----------------------------------------------------------------------------
(* C21 *)

\* the last component of path is the file f
IsFile(path, f) ==
    /\ Len(path) >= Len(f)
    /\ SubSeq(path, Len(path) - Len(f) + 1, Len(path)) = f
    /\ Len(path) > Len(f) => path[Len(path) - Len(f)] = "/"

\* C21: whatever rescan, closeall and closedevice did in the run so far, every
\* write to a vterm_state file wrote "0", every write of "1" went to a rescan
\* attribute, and an adapter that was free at the start still reads "0".
C21_NeverConnects ==
    /\ \A i \in DOMAIN log :
         log[i].op = "write" =>
             /\ IsFile(log[i].path, F_vterm_state) => log[i].val = <<"0">>
             /\ log[i].val = <<"1">> => IsFile(log[i].path, F_rescan)
             /\ log[i].val \in {<<"0">>, <<"1">>}
    /\ \A d \in DOMAIN devs :
         devs[d].vterm = <<"0">> =>
             Strip(sysfs[PathJoin(devs[d].path, F_vterm_state)]) = <<"0">>

\* rescan wrote "1" to the driver's rescan attribute, then closeall wrote "0"
\* to a connected adapter, and the free adapter beside it is still free
C21_Witness ==
    /\ pc = "done"
    /\ args.rescan /\ args.all
    /\ Len(devs) = 2
    /\ devs[1].drv = DRIVER /\ devs[1].vterm = <<"0">>
    /\ devs[2].drv = DRIVER /\ devs[2].vterm = <<"1">>
    /\ \E i, j \in DOMAIN log :
         /\ i < j
         /\ log[i].op = "write" /\ log[i].ok /\ log[i].val = <<"1">>
         /\ log[j].op = "write" /\ log[j].ok /\ log[j].val = <<"0">>
         /\ log[j].path = PathJoin(devs[2].path, F_vterm_state)
    /\ Strip(sysfs[PathJoin(devs[1].path, F_vterm_state)]) = <<"0">>
    /\ Strip(sysfs[PathJoin(devs[2].path, F_vterm_state)]) = <<"0">>

----------------------------------------------------------------------------
(* C22 *)

\* the status lines printed for the device at path, in order
StatusLinesOf(path) ==
    LET ls == SelectSeq(log, LAMBDA e : e.op = "print" /\ e.msg = "status line"
                                         /\ e.path = path)
    IN  [k \in 1..Len(ls) |-> ls[k].val]

\* the line of device d with the partition and slot fields left empty
EmptyCLCLine(d) ==
    StatusLine(SuffixAfter3(devs[d].path, HexChars), EmptyStr, EmptyStr,
               devs[d].index, devs[d].vterm)

\* C22: when the current_vty of a resolved device does not match the
\* location-code grammar, the status report still prints exactly one line for
\* that device, with empty partition and slot fields, and goes on to end with
\* success: the full listing prints its line and those of all other
\* devices and exits 0, and a -node query of it prints the line and exits 0
C22_MalformedVtyStillReported ==
    (pc = "done" /\ AllToolsOk /\ Resolved
     /\ \A i \in DOMAIN devs : HasAllFiles(devs[i].path)) =>
        /\ args.status =>
             \A d \in Enumerated : ~devs[d].vty.wf =>
                 /\ StatusLinesOf(devs[d].path) = <<EmptyCLCLine(d)>>
                 /\ \A e \in Enumerated : Len(StatusLinesOf(devs[e].path)) = 1
                 /\ exit = 0
        /\ args.node # EmptyStr =>
             \A d \in DOMAIN devs :
                 (device_path = devs[d].path /\ ~devs[d].vty.wf) =>
                     /\ StatusLinesOf(device_path) = <<EmptyCLCLine(d)>>
                     /\ exit = 0

\* the full listing over three devices, the second with a current_vty that
\* has no slot: three lines were printed, the second with empty fields
C22_Witness ==
    /\ pc = "done"
    /\ args.status
    /\ AllToolsOk
    /\ Len(devs) = 3
    /\ Enumerated = {1, 2, 3}
    /\ devs[2].vty = BadVty(MachineSerial \o <<"-", "V">> \o P15)
    /\ StatusLinePaths = <<devs[1].path, devs[2].path, devs[3].path>>
    /\ StatusLinesOf(devs[2].path) = <<EmptyCLCLine(2)>>
    /\ exit = 0

----------------------------------------------------------------------------
(* C23 *)

\* the Device path lines between the Driver line line i stands under and line i
PathLinesOfBlock(lines, i) ==
    {j \in 1..(i - 1) :
        /\ lines[j].key = "Device path"
        /\ \A k \in j..(i - 1) : lines[k].key # "Driver"}

\* the path in force at line i: that of the last path line of its block so far
PathInBlock(lines, i) ==
    IF PathLinesOfBlock(lines, i) = {} THEN EmptyStr
    ELSE lines[SetMax(PathLinesOfBlock(lines, i))].val

\* the lines that match: index lines for by_index, location codes for
\* by_partition, vterm_state "1" lines for closeall
IndexMatches(lines, t) ==
    {i \in 1..Len(lines) :
        lines[i].key = "index" /\ lines[i].val = t /\ UnderDriver(lines, i)}

PartitionMatches(lines, t) ==
    {i \in 1..Len(lines) :
        /\ lines[i].key = "current_vty"
        /\ ParseCLCFrom(lines[i].val, 1).ok
        /\ ParseCLCFrom(lines[i].val, 1).partition = t
        /\ ParseCLCFrom(lines[i].val, 1).slot = <<"0">>
        /\ UnderDriver(lines, i)}

ConnectedLines(lines) ==
    SelectSeq([i \in 1..Len(lines) |-> i],
              LAMBDA i : /\ lines[i].key = "vterm_state"
                         /\ lines[i].val = <<"1">>
                         /\ UnderDriver(lines, i))

\* C23: a Driver line resets the device path: the path a resolution returns is
\* that of a Device path line standing between the matching line and the
\* Driver line above it, the empty string when there is none there, and
\* closeall's writes go to the path of such a line of the block of the
\* vterm_state line that caused them; a path seen before the Driver line is
\* never returned or written to.
C23_DriverLineResets ==
    /\ (pc = "by_index" /\ ToolOk /\ IndexMatches(out, target) # {}) =>
         device_path = PathInBlock(out, SetMin(IndexMatches(out, target)))
    /\ (pc = "by_partition" /\ ToolOk /\ PartitionMatches(out, target) # {}) =>
         device_path = PathInBlock(out, SetMin(PartitionMatches(out, target)))
    /\ (pc = "closeall" /\ ToolOk) =>
         /\ Len(ClosesLogged) = Len(ConnectedLines(out))
         /\ \A k \in 1..Len(ClosesLogged) :
              ClosesLogged[k].path
                = PathJoin(PathInBlock(out, ConnectedLines(out)[k]),
                           F_vterm_state)

\* a path line, then the Driver line, then the index asked for: the
\* resolution returns the empty string, not the path seen before the block
C23_Witness ==
    /\ pc = "by_index"
    /\ ToolOk
    /\ out = <<Line("Device path", DeviceDir \o DevName(1)),
               Line("Driver", DRIVER), Line("index", <<"2">>)>>
    /\ target = <<"2">>
    /\ device_path = EmptyStr

----------------------------------------------------------------------------
(* C24 *)

\* the lines that begin a device record or a driver block
IsRecordStart(l) == l.key \in {"Device", "Driver"}

\* the paths of the Device path lines of the record line i belongs to: those
\* with no Device or Driver line between them and line i, before or after it
OwnPaths(lines, i) ==
    {lines[j].val : j \in {j \in 1..Len(lines) :
        /\ lines[j].key = "Device path"
        /\ \A k \in (IF j < i THEN j ELSE i + 1)..(IF j < i THEN i - 1 ELSE j) :
               ~IsRecordStart(lines[k])}}

\* C24: when one driver block lists several devices, a path returned by
\* a resolution is the path of the device whose index or location code line
\* matched, and every write of closeall goes to the path of the device whose
\* vterm_state line caused it (or to no path at all), never to the path of an
\* earlier device of the block.
C24_PathOfMatchingDevice ==
    /\ (pc = "by_index" /\ ToolOk /\ device_path # EmptyStr) =>
         \E i \in IndexMatches(out, target) : device_path \in OwnPaths(out, i)
    /\ (pc = "by_partition" /\ ToolOk /\ device_path # EmptyStr) =>
         \E i \in PartitionMatches(out, target) :
             device_path \in OwnPaths(out, i)
    /\ (pc = "closeall" /\ ToolOk) =>
         \A k \in 1..Len(ClosesLogged) :
             \/ ClosesLogged[k].path = F_vterm_state
             \/ \E p \in OwnPaths(out, ConnectedLines(out)[k]) :
                    ClosesLogged[k].path = PathJoin(p, F_vterm_state)

----------------------------------------------------------------------------
(* C25 *)

\* path is file f under the non-empty value of a line of the stream with key
UnderReportedPath(lines, key, path, f) ==
    \E j \in 1..Len(lines) :
        /\ lines[j].key = key
        /\ lines[j].val # EmptyStr
        /\ path = PathJoin(lines[j].val, f)

\* C25: every write of closeall goes to vterm_state under a non-empty device
\* path the scan reported and every write of rescan to rescan under a
\* non-empty driver path it reported: no write is attempted to a bare
\* relative vterm_state or rescan file.
C25_WritesUnderNonEmptyPath ==
    /\ pc = "closeall" =>
         \A k \in 1..Len(ClosesLogged) :
             UnderReportedPath(out, "Device path", ClosesLogged[k].path,
                               F_vterm_state)
    /\ pc = "rescan" =>
         \A k \in 1..Len(WritesLogged) :
             UnderReportedPath(out, "Driver path", WritesLogged[k].path,
                               F_rescan)

----------------------------------------------------------------------------
(* C26 *)

\* the final component of a path
LastComponent(path) ==
    LET sl == {k \in 0..Len(path) : k = 0 \/ path[k] = "/"}
    IN  SubSeq(path, SetMax(sl) + 1, Len(path))

\* the status line val names the adapter id
NamesAdapter(val, id) ==
    /\ Len(val) >= Len(id) + 2
    /\ SubSeq(val, 1, Len(id) + 2) = <<"@">> \o id \o <<" ">>

\* C26: for a device path whose final component is an adapter id beginning
\* with 3, the status line displaybypath prints names that whole component as
\* the adapter, and the two success messages of closedevice name the same
\* whole component.
C26_AdapterIdIsFinalComponent ==
    \A i \in DOMAIN log :
        /\ (log[i].op = "print" /\ log[i].msg = "status line"
            /\ LastComponent(log[i].path) # EmptyStr
            /\ LastComponent(log[i].path)[1] = "3") =>
               NamesAdapter(log[i].val, LastComponent(log[i].path))
        /\ (args.close # EmptyStr /\ log[i].op = "statusprint"
            /\ log[i].msg \in {"is mapped to vty-server", "closed"}
            /\ LastComponent(device_path) # EmptyStr
            /\ LastComponent(device_path)[1] = "3") =>
               log[i].path = LastComponent(device_path)

====
